---- MODULE Spec2Model ----
(***************************************************************************)
(* Inventory application: the view engine of InventoryTable (derived       *)
(* metrics, filter pipeline), the mutation handlers of the in-memory App   *)
(* (add, edit, move, import, delete) with the validation of their modal    *)
(* forms, and the move transaction of the document-store App.              *)
(*                                                                         *)
(* A JavaScript string is a sequence of one-character strings, so that     *)
(* toUpperCase, includes, split and trim are computed and not assumed.     *)
(* An optional field is a sequence of length at most one: <<>> is          *)
(* undefined and <<v>> is the value v.                                     *)
(***************************************************************************)
EXTENDS Integers, Sequences, FiniteSets, TLC

VARIABLES
    items,            \* appState.items
    stock,            \* appState.stock
    categoryColors,   \* appState.categoryColors
    selectedItemIds,  \* App selectedItemIds
    searchQuery,      \* App searchQuery
    filterCategory,   \* InventoryTable filterCategory
    filterLocation,   \* InventoryTable filterLocation
    view,             \* what InventoryTable derived at its last render
    last,             \* the handler that ran last, with its arguments and outcome
    nOps,             \* number of mutations applied so far
    dbStock,          \* the 'stock' collection of the document store
    moves,            \* the handleMoveStock calls in flight against the store
    sortKey,          \* InventoryTable sortKey
    sortDirection,    \* InventoryTable sortDirection
    groupBy,          \* InventoryTable groupBy
    currentView,      \* App currentView, the view prop of InventoryTable
    selectedLocationView, \* App selectedLocationView, the location tab
    dbItems,          \* the ids of the documents of the 'inventory' collection
    deletion,         \* the handleDeleteItem call in flight against the store
    history,          \* useHistoryState history
    currentIndex,     \* useHistoryState currentIndex, counted from 0
    closure           \* what the callbacks of the last render closed over

vars == <<items, stock, categoryColors, selectedItemIds, searchQuery,
          filterCategory, filterLocation, view, last, nOps, dbStock, moves,
          sortKey, sortDirection, groupBy, currentView, selectedLocationView,
          dbItems, deletion, history, currentIndex, closure>>

\* the location tab that shows every location
ALL == <<"a", "l", "l">>

\* the useState initial values of the table and of the navigation
TableInit ==
    /\ sortKey = "id"
    /\ sortDirection = "asc"
    /\ groupBy = "none"
    /\ currentView = "all"
    /\ selectedLocationView = ALL

\* handleDeleteItem against the store has not been called
NoDeletion == [pc |-> "idle", itemId |-> <<>>, docs |-> {}]

\* the App holds appState in a plain useState: there is no undo history
NoHistory ==
    /\ history = <<>>
    /\ currentIndex = 0
    /\ closure = [history |-> <<>>, currentIndex |-> 0, calls |-> 0]

\* what leaves the undo history and the callbacks of the render alone
HistoryFrame == UNCHANGED <<history, currentIndex, closure>>

\* no document store and no undo history: the App keeps its state in memory
StoreInit ==
    /\ dbItems = {}
    /\ deletion = NoDeletion
    /\ NoHistory

\* what leaves the 'inventory' collection, the delete in flight and the undo
\* history alone
StoreFrame ==
    /\ UNCHANGED <<dbItems, deletion>>
    /\ HistoryFrame

\* what leaves the table's sort and grouping and the navigation alone
TableFrame ==
    UNCHANGED <<sortKey, sortDirection, groupBy, currentView, selectedLocationView>>

-----------------------------------------------------------------------------
(* Strings *)

Undefined == <<>>

Some(v) == <<v>>

LowerChars == <<"a","b","c","d","e","f","g","h","i","j","k","l","m",
                "n","o","p","q","r","s","t","u","v","w","x","y","z">>

UpperChars == <<"A","B","C","D","E","F","G","H","I","J","K","L","M",
                "N","O","P","Q","R","S","T","U","V","W","X","Y","Z">>

\* the upper-case form of every lower-case letter
UpperOf == [c \in {LowerChars[i] : i \in 1..Len(LowerChars)} |->
               UpperChars[CHOOSE i \in 1..Len(LowerChars) : LowerChars[i] = c]]

ToUpperChar(c) == IF c \in DOMAIN UpperOf THEN UpperOf[c] ELSE c

\* String.prototype.toUpperCase
ToUpperCase(s) == [i \in 1..Len(s) |-> ToUpperChar(s[i])]

\* String.prototype.includes
Includes(s, t) ==
    \E i \in 1..(Len(s) - Len(t) + 1) : SubSeq(s, i, i + Len(t) - 1) = t

\* position of the first occurrence of the character c in s, 0 when absent
IndexOfChar(s, c) ==
    IF \E i \in 1..Len(s) : s[i] = c
    THEN CHOOSE i \in 1..Len(s) : s[i] = c /\ \A j \in 1..(i - 1) : s[j] # c
    ELSE 0

\* String.prototype.split with a one-character separator
RECURSIVE Split(_, _)
Split(s, c) ==
    LET k == IndexOfChar(s, c) IN
    IF k = 0 THEN <<s>>
    ELSE <<SubSeq(s, 1, k - 1)>> \o Split(SubSeq(s, k + 1, Len(s)), c)

\* a string in a boolean position: '' is falsy
Truthy(s) == s # <<>>

\* an optional string in a boolean position: undefined and '' are falsy
TruthyOpt(o) == o # Undefined /\ o[1] # <<>>

\* o || d for an optional string o
OrElse(o, d) == IF TruthyOpt(o) THEN o[1] ELSE d

\* s || d for a string s
StrOr(s, d) == IF Truthy(s) THEN s ELSE d

UNCATEGORIZED == <<"U","N","C","A","T","E","G","O","R","I","Z","E","D">>

UNKNOWN_LOCATION == <<"U","N","K","N","O","W","N"," ","L","O","C","A","T","I","O","N">>

Pipe == <<"|">>

-----------------------------------------------------------------------------
(* Locale-aware comparison.  Characters are ranked as the root collation   *)
(* ranks them: space, punctuation, digits, letters; letters differ in case *)
(* only at the last level, lower case first.                               *)

PrimaryOrder == <<" ", "-", "\"", "|",
                  "0","1","2","3","4","5","6","7","8","9">> \o LowerChars

ToLowerChar(c) ==
    IF \E i \in 1..Len(UpperChars) : UpperChars[i] = c
    THEN LowerChars[CHOOSE i \in 1..Len(UpperChars) : UpperChars[i] = c]
    ELSE c

PrimaryWeight(c) ==
    LET l == ToLowerChar(c) IN
    IF \E i \in 1..Len(PrimaryOrder) : PrimaryOrder[i] = l
    THEN CHOOSE i \in 1..Len(PrimaryOrder) : PrimaryOrder[i] = l
    ELSE Len(PrimaryOrder) + 1

CaseWeight(c) == IF \E i \in 1..Len(UpperChars) : UpperChars[i] = c THEN 1 ELSE 0

\* lexicographic comparison of two sequences of numbers: -1, 0 or 1
RECURSIVE CompareWeights(_, _)
CompareWeights(a, b) ==
    IF a = <<>> /\ b = <<>> THEN 0
    ELSE IF a = <<>> THEN -1
    ELSE IF b = <<>> THEN 1
    ELSE IF a[1] < b[1] THEN -1
    ELSE IF a[1] > b[1] THEN 1
    ELSE CompareWeights(Tail(a), Tail(b))

\* String.prototype.localeCompare
LocaleCompare(a, b) ==
    LET p == CompareWeights([i \in 1..Len(a) |-> PrimaryWeight(a[i])],
                            [i \in 1..Len(b) |-> PrimaryWeight(b[i])])
    IN IF p # 0 THEN p
       ELSE CompareWeights([i \in 1..Len(a) |-> CaseWeight(a[i])],
                           [i \in 1..Len(b) |-> CaseWeight(b[i])])

-----------------------------------------------------------------------------
(* Reference data *)

WHJ == <<"w","h","-","j">>

WHC == <<"w","h","-","c">>

WHK == <<"w","h","-","k">>

PROD == <<"p","r","o","d">>

INSPECT == <<"i","n","s","p","e","c","t">>

locations == <<
    [id |-> WHJ, name |-> <<"W","H","-","J">>,
     subLocationPrompt |-> Some(<<"S","H","E","L","F">>)],
    [id |-> WHC, name |-> <<"W","H","-","C">>, subLocationPrompt |-> Undefined],
    [id |-> WHK, name |-> <<"W","H","-","K">>, subLocationPrompt |-> Undefined],
    [id |-> PROD, name |-> <<"P","R","O","D">>,
     subLocationPrompt |-> Some(<<"R","O","O","M">>)],
    [id |-> INSPECT, name |-> <<"I","N","S","P","E","C","T">>,
     subLocationPrompt |-> Undefined] >>

LocationIds == {locations[i].id : i \in 1..Len(locations)}

SAMP11 == <<"5","6","3","-","1","1","-","S","A","M","P">>

SAMP15 == <<"5","6","3","-","1","5","-","S","A","M","P">>

LEDBOARD == <<"O","U","T","D","O","O","R"," ","L","E","D"," ","B","O","A","R","D">>

RED == <<"R","E","D">>

AMBER == <<"A","M","B","E","R">>

initialItems == <<
    [id |-> SAMP11,
     description |-> <<"1","1","\""," ","S","A","M","P","L","E">>,
     category |-> Some(LEDBOARD), subCategory |-> Some(RED),
     priorUsage |-> Some(<<[year |-> 2023, usage |-> 1000],
                           [year |-> 2024, usage |-> 1100],
                           [year |-> 2025, usage |-> 1200]>>),
     lowAlertQuantity |-> Some(100)],
    [id |-> SAMP15,
     description |-> <<"1","5","\""," ","S","A","M","P","L","E">>,
     category |-> Some(LEDBOARD), subCategory |-> Some(AMBER),
     priorUsage |-> Some(<<[year |-> 2023, usage |-> 500],
                           [year |-> 2024, usage |-> 550],
                           [year |-> 2025, usage |-> 600]>>),
     lowAlertQuantity |-> Some(50)] >>

StockRow(itemId, locationId, quantity, detail) ==
    [itemId |-> itemId, locationId |-> locationId, quantity |-> quantity,
     subLocationDetail |-> detail, source |-> "OH",
     poNumber |-> Undefined, dateReceived |-> Undefined]

initialStock == <<
    StockRow(SAMP11, WHC, 900, Undefined),
    StockRow(SAMP11, PROD, 75, Undefined),
    StockRow(SAMP15, WHC, 450, Undefined),
    StockRow(SAMP15, PROD, 25, Undefined) >>

initialColors ==
    (RED :> "#EF4444") @@ (AMBER :> "#F59E0B") @@
    (<<"G","R","E","E","N">> :> "#10B981") @@ (<<"B","L","U","E">> :> "#3B82F6")

-----------------------------------------------------------------------------
(* InventoryTable: derived metrics *)

RECURSIVE SumUsage(_)
SumUsage(entries) ==
    IF entries = <<>> THEN 0 ELSE entries[1].usage + SumUsage(Tail(entries))

\* calculateAverageUsage returns totalUsage / length; the quotient is kept as
\* the pair of its numerator and denominator, 0 being <<0, 1>>
calculateAverageUsage(priorUsage) ==
    IF priorUsage = Undefined \/ Len(priorUsage[1]) = 0
    THEN [num |-> 0, den |-> 1]
    ELSE [num |-> SumUsage(priorUsage[1]), den |-> Len(priorUsage[1])]

\* stock.filter(s => s.itemId === item.id)
AllItemStock_NoFilter(stk, item) == stk

AllItemStock(stk, item) == SelectSeq(stk, LAMBDA s : s.itemId = item.id)

\* allItemStock.reduce((sum, s) => sum + s.quantity, 0)
RECURSIVE TotalQuantity(_)
TotalQuantity(rows) ==
    IF rows = <<>> THEN 0 ELSE rows[1].quantity + TotalQuantity(Tail(rows))

\* locationMap.get(s.locationId) || 'UNKNOWN LOCATION'
LocationName(locationId) ==
    IF \E i \in 1..Len(locations) : locations[i].id = locationId
    THEN LET i == CHOOSE i \in 1..Len(locations) : locations[i].id = locationId
         IN StrOr(locations[i].name, UNKNOWN_LOCATION)
    ELSE UNKNOWN_LOCATION

WithLocationName(s) ==
    [itemId |-> s.itemId, locationId |-> s.locationId, quantity |-> s.quantity,
     subLocationDetail |-> s.subLocationDetail, source |-> s.source,
     poNumber |-> s.poNumber, dateReceived |-> s.dateReceived,
     locationName |-> LocationName(s.locationId)]

\* Array.prototype.sort is stable: a row goes after every row that does not
\* compare greater than it
RECURSIVE InsertByLocationName(_, _)
InsertByLocationName(sorted, r) ==
    IF sorted = <<>> THEN <<r>>
    ELSE IF LocaleCompare(sorted[Len(sorted)].locationName, r.locationName) <= 0
         THEN Append(sorted, r)
         ELSE Append(InsertByLocationName(SubSeq(sorted, 1, Len(sorted) - 1), r),
                     sorted[Len(sorted)])

RECURSIVE SortByLocationName(_)
SortByLocationName(rows) ==
    IF rows = <<>> THEN <<>>
    ELSE InsertByLocationName(SortByLocationName(SubSeq(rows, 1, Len(rows) - 1)),
                              rows[Len(rows)])

LocationsWithStock(allItemStock) ==
    SortByLocationName([i \in 1..Len(allItemStock) |-> WithLocationName(allItemStock[i])])

NA == <<"N","/","A">>

\* Number.prototype.toFixed(1) of the quotient n / d of two positive integers,
\* as <<integer part, tenths digit>>: the nearest tenth, the larger one when
\* the quotient lies midway
ToFixed1(n, d) ==
    LET tenths == (20 * n + d) \div (2 * d) IN <<tenths \div 10, tenths % 10>>

\* averageUsage > 0 && totalQuantity > 0
\*   ? `${(totalQuantity / (averageUsage / 12)).toFixed(1)} MONTHS` : 'N/A'
Etr_NoQuantityGuard(averageUsage, totalQuantity) ==
    IF averageUsage.num > 0
    THEN ToFixed1(12 * totalQuantity * averageUsage.den, averageUsage.num)
    ELSE NA

Etr(averageUsage, totalQuantity) ==
    IF averageUsage.num > 0 /\ totalQuantity > 0
    THEN ToFixed1(12 * totalQuantity * averageUsage.den, averageUsage.num)
    ELSE NA

\* item.lowAlertQuantity !== undefined && totalQuantity <= item.lowAlertQuantity
IsLowStock_Strict(item, totalQuantity) ==
    item.lowAlertQuantity # Undefined /\ totalQuantity < item.lowAlertQuantity[1]

IsLowStock(item, totalQuantity) ==
    item.lowAlertQuantity # Undefined /\ totalQuantity <= item.lowAlertQuantity[1]

MapItem(item, stk) ==
    LET allItemStock == AllItemStock(stk, item)
        totalQuantity == TotalQuantity(allItemStock)
        averageUsage == calculateAverageUsage(item.priorUsage)
    IN [id |-> item.id, description |-> item.description,
        subCategory |-> item.subCategory, priorUsage |-> item.priorUsage,
        lowAlertQuantity |-> item.lowAlertQuantity,
        quantityInView |-> totalQuantity,
        totalQuantity |-> totalQuantity,
        etr |-> Etr(averageUsage, totalQuantity),
        locationsWithStock |-> LocationsWithStock(allItemStock),
        category |-> OrElse(item.category, UNCATEGORIZED),
        isLowStock |-> IsLowStock(item, totalQuantity)]

\* items.map(item => ...)
MappedItems(its, stk) == [i \in 1..Len(its) |-> MapItem(its[i], stk)]

\* App.lowAlertItemCount: stockMap after
\* stock.forEach(s => stockMap.set(s.itemId, (stockMap.get(s.itemId) || 0) + s.quantity))
RECURSIVE StockMap(_)
StockMap(stk) ==
    IF stk = <<>> THEN [k \in {} |-> 0]
    ELSE LET stockMap == StockMap(SubSeq(stk, 1, Len(stk) - 1))
             s == stk[Len(stk)]
             got == IF s.itemId \in DOMAIN stockMap THEN stockMap[s.itemId] ELSE 0
         IN [k \in DOMAIN stockMap \cup {s.itemId} |->
                IF k = s.itemId THEN got + s.quantity ELSE stockMap[k]]

\* stockMap.get(i.id) || 0
StockMapTotal(stockMap, id) == IF id \in DOMAIN stockMap THEN stockMap[id] ELSE 0

\* a count that leaves out the items whose total equals their threshold
lowAlertItemCount_Strict(its, stk) ==
    Len(SelectSeq(its, LAMBDA i :
            /\ i.lowAlertQuantity # Undefined
            /\ StockMapTotal(StockMap(stk), i.id) < i.lowAlertQuantity[1]))

\* items.filter(i => i.lowAlertQuantity !== undefined && total <= i.lowAlertQuantity).length
lowAlertItemCount(its, stk) ==
    Len(SelectSeq(its, LAMBDA i :
            /\ i.lowAlertQuantity # Undefined
            /\ StockMapTotal(StockMap(stk), i.id) <= i.lowAlertQuantity[1]))

-----------------------------------------------------------------------------
(* InventoryTable: filter pipeline *)

\* the predicate of the search stage; lower is searchQuery.toUpperCase()
MatchesSearch_CaseSensitive(item, lower) ==
    \/ Includes(item.id, lower)
    \/ Includes(item.description, lower)
    \/ Includes(item.category, lower)
    \/ (TruthyOpt(item.subCategory) /\ Includes(item.subCategory[1], lower))

MatchesSearch(item, lower) ==
    \/ Includes(ToUpperCase(item.id), lower)
    \/ Includes(ToUpperCase(item.description), lower)
    \/ Includes(ToUpperCase(item.category), lower)
    \/ (TruthyOpt(item.subCategory) /\ Includes(ToUpperCase(item.subCategory[1]), lower))

SearchStage(result, query) ==
    IF Truthy(query)
    THEN LET lower == ToUpperCase(query)
         IN SelectSeq(result, LAMBDA item : MatchesSearch(item, lower))
    ELSE result

CategoryStage(result, fCategory) ==
    IF Truthy(fCategory)
    THEN IF Includes(fCategory, Pipe)
         THEN LET parts == Split(fCategory, "|")
                  cat == parts[1]
                  sub == parts[2]
              IN SelectSeq(result, LAMBDA item :
                     StrOr(item.category, UNCATEGORIZED) = cat
                     /\ item.subCategory = Some(sub))
         ELSE SelectSeq(result, LAMBDA item :
                     StrOr(item.category, UNCATEGORIZED) = fCategory)
    ELSE result

HasStockAt(item, locationId) ==
    \E k \in 1..Len(item.locationsWithStock) :
        item.locationsWithStock[k].locationId = locationId

LocationStage(result, fLocation) ==
    IF Truthy(fLocation)
    THEN SelectSeq(result, LAMBDA item : HasStockAt(item, fLocation))
    ELSE result

\* a pipeline whose last stage starts again from the full list
FilteredItems_LastStageOnly(mapped, query, fCategory, fLocation) ==
    IF Truthy(fLocation) THEN LocationStage(mapped, fLocation)
    ELSE CategoryStage(SearchStage(mapped, query), fCategory)

FilteredItems(mapped, query, fCategory, fLocation) ==
    LocationStage(CategoryStage(SearchStage(mapped, query), fCategory), fLocation)

\* categoryHierarchy, as the set of the option values the category filter
\* offers: every effective category, and "<category>|<subCategory>" for
\* every sub-category seen under it
CategoryOptions(its) ==
    {OrElse(its[i].category, UNCATEGORIZED) : i \in 1..Len(its)}
    \cup {OrElse(its[i].category, UNCATEGORIZED) \o Pipe \o its[i].subCategory[1] :
            i \in {j \in 1..Len(its) : TruthyOpt(its[j].subCategory)}}

\* what a render of InventoryTable derives when items or stock changed: every
\* useMemo is recomputed
Derive(its, stk, query, fCategory, fLocation) ==
    LET mapped == MappedItems(its, stk)
    IN [mappedItems |-> mapped,
        filteredItems |-> FilteredItems(mapped, query, fCategory, fLocation)]

\* what a render derives when only searchQuery, filterCategory or
\* filterLocation changed: the mappedItems memo is kept (its dependencies are
\* items, locations, stock and categoryColors), filteredItems is recomputed
Rederive(prev, query, fCategory, fLocation) ==
    [mappedItems |-> prev.mappedItems,
     filteredItems |-> FilteredItems(prev.mappedItems, query, fCategory, fLocation)]

-----------------------------------------------------------------------------
(* The view engine over bounded inputs: the item list and the stock list   *)
(* are drawn from two pools, and the actions are the controls of           *)
(* InventoryTable that change what it derives.                             *)

MaxItems == 2

MaxStock == 2

ItemA ==
    [id |-> <<"A">>, description |-> <<"p">>,
     category |-> Some(<<"X">>), subCategory |-> Undefined,
     priorUsage |-> Undefined, lowAlertQuantity |-> Undefined]

ItemB ==
    [id |-> <<"B">>, description |-> <<"q">>,
     category |-> Some(<<"Y">>), subCategory |-> Some(<<"r">>),
     priorUsage |-> initialItems[1].priorUsage,
     lowAlertQuantity |-> Some(900)]

ItemAb ==
    [id |-> <<"a","b">>, description |-> <<"B","q">>,
     category |-> Some(<<>>), subCategory |-> Some(<<>>),
     priorUsage |-> Some(<<[year |-> 2025, usage |-> 0]>>),
     lowAlertQuantity |-> Some(0)]

ItemPipe ==
    [id |-> <<"c">>, description |-> <<"p">>,
     category |-> Some(<<"X","|","r">>), subCategory |-> Undefined,
     priorUsage |-> Some(<<>>), lowAlertQuantity |-> Some(5)]

ItemPool == <<ItemB, ItemAb, ItemA, ItemPipe>>

StockPool == <<
    StockRow(<<"B">>, WHC, 900, Undefined),
    StockRow(<<"B">>, PROD, 75, Some(<<"s">>)),
    StockRow(<<"A">>, WHC, 1, Undefined),
    StockRow(<<"a","b">>, WHJ, 1, Some(<<"t">>)),
    StockRow(<<"a","b">>, WHC, 3, Undefined) >>

SearchTexts == {<<>>, <<"a">>, <<"A">>, <<"Q">>, <<"z">>}

\* the elements of pool at the positions in S, in the order of the pool
RECURSIVE Pick(_, _, _)
Pick(pool, S, i) ==
    IF i > Len(pool) THEN <<>>
    ELSE (IF i \in S THEN <<pool[i]>> ELSE <<>>) \o Pick(pool, S, i + 1)

SubLists(pool, n) ==
    {Pick(pool, S, 1) : S \in {T \in SUBSET (1..Len(pool)) : Cardinality(T) <= n}}

NoMoves == <<>>

InitView ==
    /\ items \in SubLists(ItemPool, MaxItems)
    /\ stock \in SubLists(StockPool, MaxStock)
    /\ categoryColors = initialColors
    /\ selectedItemIds = {}
    /\ searchQuery = <<>>
    /\ filterCategory = <<>>
    /\ filterLocation = <<>>
    /\ view = Derive(items, stock, <<>>, <<>>, <<>>)
    /\ last = [op |-> "init"]
    /\ nOps = 0
    /\ dbStock = <<>>
    /\ moves = NoMoves
    /\ TableInit
    /\ StoreInit

\* App: onChange of the search input
SetSearchQuery(q) ==
    /\ searchQuery' = q
    /\ view' = Rederive(view, q, filterCategory, filterLocation)
    /\ UNCHANGED <<items, stock, categoryColors, selectedItemIds,
                   filterCategory, filterLocation, last, nOps, dbStock, moves>>
    /\ TableFrame
    /\ StoreFrame

\* InventoryTable: onChange of the category select
SetFilterCategory(v) ==
    /\ filterCategory' = v
    /\ view' = Rederive(view, searchQuery, v, filterLocation)
    /\ UNCHANGED <<items, stock, categoryColors, selectedItemIds,
                   searchQuery, filterLocation, last, nOps, dbStock, moves>>
    /\ TableFrame
    /\ StoreFrame

\* InventoryTable: onChange of the location select
SetFilterLocation(l) ==
    /\ filterLocation' = l
    /\ view' = Rederive(view, searchQuery, filterCategory, l)
    /\ UNCHANGED <<items, stock, categoryColors, selectedItemIds,
                   searchQuery, filterCategory, last, nOps, dbStock, moves>>
    /\ TableFrame
    /\ StoreFrame

\* InventoryTable.handleApplyFilters, called by FilterModal.handleApply
handleApplyFilters(c, l) ==
    /\ filterCategory' = c
    /\ filterLocation' = l
    /\ view' = Rederive(view, searchQuery, c, l)
    /\ UNCHANGED <<items, stock, categoryColors, selectedItemIds,
                   searchQuery, last, nOps, dbStock, moves>>
    /\ TableFrame
    /\ StoreFrame

\* InventoryTable.handleClearFilters, called by FilterModal.handleClear
handleClearFilters ==
    /\ filterCategory' = <<>>
    /\ filterLocation' = <<>>
    /\ view' = Rederive(view, searchQuery, <<>>, <<>>)
    /\ UNCHANGED <<items, stock, categoryColors, selectedItemIds,
                   searchQuery, last, nOps, dbStock, moves>>
    /\ TableFrame
    /\ StoreFrame

NextView ==
    \/ \E q \in SearchTexts : SetSearchQuery(q)
    \/ \E v \in {<<>>} \cup CategoryOptions(items) : SetFilterCategory(v)
    \/ \E l \in {<<>>} \cup LocationIds : SetFilterLocation(l)
    \/ \E c \in {<<>>} \cup CategoryOptions(items), l \in {<<>>} \cup LocationIds :
           handleApplyFilters(c, l)
    \/ handleClearFilters

SpecView == InitView /\ [][NextView]_vars

-----------------------------------------------------------------------------
(* Properties of the derived metrics *)

\* the sum of f over the finite set S of indices
RECURSIVE SumOver(_, _)
SumOver(S, f) ==
    IF S = {} THEN 0
    ELSE LET k == CHOOSE k \in S : TRUE IN f[k] + SumOver(S \ {k}, f)

\* the positions of the stock rows of the item with this id
RowsOf(id) == {k \in 1..Len(stock) : stock[k].itemId = id}

\* the sum of quantity over the stock rows of the item with this id
StockSum(id) == SumOver(RowsOf(id), [k \in 1..Len(stock) |-> stock[k].quantity])

\* C1: each derived item's totalQuantity is the sum of quantity over exactly
\* the stock rows with that item's id (0 without rows), in every state of the
\* search text and of the category and location filters; the items the
\* filters let through carry that same value.
C1_TotalQuantity ==
    /\ Len(view.mappedItems) = Len(items)
    /\ \A i \in 1..Len(items) :
          /\ view.mappedItems[i].id = items[i].id
          /\ view.mappedItems[i].totalQuantity = StockSum(items[i].id)
    /\ \A j \in 1..Len(view.filteredItems) :
          view.filteredItems[j].totalQuantity = StockSum(view.filteredItems[j].id)

C1_Witness ==
    /\ searchQuery # <<>>
    /\ \E i \in 1..Len(items) :
          /\ Cardinality(RowsOf(items[i].id)) = 2
          /\ view.mappedItems[i].totalQuantity = 975
    /\ \E i \in 1..Len(items) :
          /\ RowsOf(items[i].id) = {}
          /\ view.mappedItems[i].totalQuantity = 0

\* C2: with lowAlertQuantity L defined, isLowStock is true exactly when
\* totalQuantity <= L; with no lowAlertQuantity it is false.
C2_LowStock ==
    \A i \in 1..Len(items) :
        IF items[i].lowAlertQuantity # Undefined
        THEN view.mappedItems[i].isLowStock
                <=> (StockSum(items[i].id) <= items[i].lowAlertQuantity[1])
        ELSE ~view.mappedItems[i].isLowStock

C2_Witness ==
    /\ \E i \in 1..Len(items) :
          /\ items[i].lowAlertQuantity # Undefined
          /\ StockSum(items[i].id) = items[i].lowAlertQuantity[1]
          /\ view.mappedItems[i].isLowStock
    /\ \E i \in 1..Len(items) :
          /\ items[i].lowAlertQuantity # Undefined
          /\ StockSum(items[i].id) = items[i].lowAlertQuantity[1] + 1
          /\ ~view.mappedItems[i].isLowStock

UsageCount(item) ==
    IF item.priorUsage = Undefined THEN 0 ELSE Len(item.priorUsage[1])

UsageSum(item) ==
    IF item.priorUsage = Undefined THEN 0
    ELSE SumOver(1..Len(item.priorUsage[1]),
                 [k \in 1..Len(item.priorUsage[1]) |-> item.priorUsage[1][k].usage])

Abs(x) == IF x < 0 THEN -x ELSE x

\* C3: the ETR is "N/A" exactly when the average usage is not > 0 or the
\* total quantity is not > 0; otherwise it is totalQuantity / (average / 12)
\* to the nearest tenth, the divisor being positive; usages 1000, 1100, 1200
\* with total 975 give 10.6.
C3_Etr ==
    \A i \in 1..Len(items) :
        LET m == view.mappedItems[i]
            n == UsageCount(items[i])
            u == UsageSum(items[i])
            t == StockSum(items[i].id)
        IN /\ (m.etr = NA) <=> ~(n > 0 /\ u > 0 /\ t > 0)
           /\ m.etr # NA =>
                 /\ u > 0
                 /\ m.etr[2] \in 0..9
                 /\ 2 * Abs((10 * m.etr[1] + m.etr[2]) * u - 120 * t * n) <= u
           /\ (n = 3 /\ u = 3300 /\ t = 975) => m.etr = <<10, 6>>

C3_Witness ==
    \E i \in 1..Len(items) :
        /\ items[i].priorUsage = initialItems[1].priorUsage
        /\ StockSum(items[i].id) = 975
        /\ view.mappedItems[i].etr = <<10, 6>>

-----------------------------------------------------------------------------
(* Properties of the filter pipeline *)

\* two characters that are the same letter, whatever their case
SameLetter(c, d) ==
    \/ c = d
    \/ \E k \in 1..Len(LowerChars) : {c, d} = {LowerChars[k], UpperChars[k]}

\* t occurs in s, letter case ignored
OccursIgnoringCase(t, s) ==
    \E off \in 0..(Len(s) - Len(t)) :
        \A j \in 1..Len(t) : SameLetter(s[off + j], t[j])

PassesSearch(m) ==
    \/ OccursIgnoringCase(searchQuery, m.id)
    \/ OccursIgnoringCase(searchQuery, m.description)
    \/ OccursIgnoringCase(searchQuery, m.category)
    \/ (m.subCategory # Undefined /\ OccursIgnoringCase(searchQuery, m.subCategory[1]))

PassesCategory(m) ==
    filterCategory = <<>> \/ CategoryStage(<<m>>, filterCategory) = <<m>>

PassesLocation(m) ==
    \/ filterLocation = <<>>
    \/ \E k \in RowsOf(m.id) : stock[k].locationId = filterLocation

Ids(list) == [j \in 1..Len(list) |-> list[j].id]

\* C8: the filtered list is the derived list, in its order, restricted to the
\* items that satisfy the search, the category and the location predicate
\* together; applying the three stages in any order gives the same list; of
\* items A (category X) and B (category Y), search text "a" keeps only A, and
\* with category filter Y nothing is left.
C8_FilterComposition ==
    LET m == view.mappedItems
        q == searchQuery
        c == filterCategory
        l == filterLocation
    IN /\ view.filteredItems =
              SelectSeq(m, LAMBDA x : /\ (q = <<>> \/ PassesSearch(x))
                                      /\ PassesCategory(x)
                                      /\ PassesLocation(x))
       /\ view.filteredItems = LocationStage(SearchStage(CategoryStage(m, c), q), l)
       /\ view.filteredItems = SearchStage(LocationStage(CategoryStage(m, c), l), q)
       /\ view.filteredItems = CategoryStage(LocationStage(SearchStage(m, q), l), c)
       /\ view.filteredItems = CategoryStage(SearchStage(LocationStage(m, l), q), c)
       /\ view.filteredItems = SearchStage(CategoryStage(LocationStage(m, l), c), q)
       /\ ({items[i] : i \in 1..Len(items)} = {ItemA, ItemB} /\ q = <<"a">> /\ l = <<>>) =>
              /\ c = <<>> => Ids(view.filteredItems) = <<ItemA.id>>
              /\ c = <<"Y">> => view.filteredItems = <<>>

C8_Witness ==
    /\ {items[i] : i \in 1..Len(items)} = {ItemA, ItemB}
    /\ searchQuery = <<"a">>
    /\ filterCategory = <<"Y">>
    /\ Len(view.mappedItems) = 2
    /\ view.filteredItems = <<>>

\* C9: with a non-empty search text, the items that pass the search stage are
\* those whose id, description, category or (when present) subCategory
\* contains the text, letter case ignored on both sides.
C9_Search ==
    searchQuery # <<>> =>
        /\ SearchStage(view.mappedItems, searchQuery)
              = SelectSeq(view.mappedItems, PassesSearch)
        /\ \A j \in 1..Len(view.filteredItems) : PassesSearch(view.filteredItems[j])
        /\ (filterCategory = <<>> /\ filterLocation = <<>>) =>
              view.filteredItems = SelectSeq(view.mappedItems, PassesSearch)

C9_Witness ==
    /\ searchQuery = <<"a">>
    /\ filterCategory = <<>>
    /\ filterLocation = <<>>
    /\ Ids(view.mappedItems) = <<ItemB.id, ItemA.id>>
    /\ Ids(view.filteredItems) = <<ItemA.id>>
    /\ view.filteredItems[1].subCategory = Undefined

\* the effective category of an item
EffectiveCategory(item) ==
    IF item.category = Undefined \/ item.category[1] = <<>>
    THEN UNCATEGORIZED ELSE item.category[1]

\* C10: when the category filter is the bare option of a category, the items
\* that pass are those of that effective category; when it is the composite
\* option of a category and a sub-category, the items that pass are those of
\* that effective category and that subCategory; for every label items carry.
C10_CategoryOptions ==
    (searchQuery = <<>> /\ filterLocation = <<>>) =>
        \A i \in 1..Len(items) :
            /\ filterCategory = EffectiveCategory(items[i]) =>
                  Ids(view.filteredItems) =
                      Ids(SelectSeq(items, LAMBDA x :
                              EffectiveCategory(x) = EffectiveCategory(items[i])))
            /\ (TruthyOpt(items[i].subCategory)
                /\ filterCategory =
                      EffectiveCategory(items[i]) \o Pipe \o items[i].subCategory[1]) =>
                  Ids(view.filteredItems) =
                      Ids(SelectSeq(items, LAMBDA x :
                              /\ EffectiveCategory(x) = EffectiveCategory(items[i])
                              /\ x.subCategory = items[i].subCategory))

\* C17: an item whose lowAlertQuantity is zero is never flagged isLowStock,
\* whatever its totalQuantity (also when that is 0), as an item without a
\* lowAlertQuantity is never flagged; the shell's low-stock count does not
\* count such an item either.
C17_ZeroThresholdNeverLow ==
    /\ \A i \in 1..Len(items) :
          (items[i].lowAlertQuantity = Undefined \/ items[i].lowAlertQuantity = Some(0))
              => ~view.mappedItems[i].isLowStock
    /\ (\A i \in 1..Len(items) :
            items[i].lowAlertQuantity = Undefined \/ items[i].lowAlertQuantity = Some(0))
           => lowAlertItemCount(items, stock) = 0

-----------------------------------------------------------------------------
(* InventoryTable: sorting and grouping of the filtered list.  The memoized *)
(* values sortedItems and displayData are functions of the state.          *)

\* type SortKey
SortKeys == {"id", "description", "category", "quantityInView"}

\* a comparator whose descending branch forgets to negate the sub-category
\* comparison
CompareItems_SubCategoryAscending(a, b, key, direction) ==
    IF key = "category"
    THEN LET categoryCompare == LocaleCompare(StrOr(a.category, <<>>), StrOr(b.category, <<>>))
             subCategoryCompare == LocaleCompare(OrElse(a.subCategory, <<>>), OrElse(b.subCategory, <<>>))
         IN IF categoryCompare # 0
            THEN (IF direction = "asc" THEN categoryCompare ELSE -categoryCompare)
            ELSE subCategoryCompare
    ELSE IF key = "quantityInView"
    THEN (IF direction = "asc" THEN a.quantityInView - b.quantityInView
                                ELSE b.quantityInView - a.quantityInView)
    ELSE (IF direction = "asc" THEN LocaleCompare(a[key], b[key])
                                ELSE LocaleCompare(b[key], a[key]))

\* the comparator sortedItems passes to Array.prototype.sort; the values of
\* the keys id and description are strings, those of quantityInView numbers
CompareItems(a, b, key, direction) ==
    IF key = "category"
    THEN LET categoryCompare == LocaleCompare(StrOr(a.category, <<>>), StrOr(b.category, <<>>))
             subCategoryCompare == LocaleCompare(OrElse(a.subCategory, <<>>), OrElse(b.subCategory, <<>>))
         IN IF categoryCompare # 0
            THEN (IF direction = "asc" THEN categoryCompare ELSE -categoryCompare)
            ELSE (IF direction = "asc" THEN subCategoryCompare ELSE -subCategoryCompare)
    ELSE IF key = "quantityInView"
    THEN (IF direction = "asc" THEN a.quantityInView - b.quantityInView
                                ELSE b.quantityInView - a.quantityInView)
    ELSE (IF direction = "asc" THEN LocaleCompare(a[key], b[key])
                                ELSE LocaleCompare(b[key], a[key]))

\* Array.prototype.sort is stable: an item goes after every item that does
\* not compare greater than it
RECURSIVE InsertItem(_, _, _, _)
InsertItem(sorted, item, key, direction) ==
    IF sorted = <<>> THEN <<item>>
    ELSE IF CompareItems(sorted[Len(sorted)], item, key, direction) <= 0
         THEN Append(sorted, item)
         ELSE Append(InsertItem(SubSeq(sorted, 1, Len(sorted) - 1), item, key, direction),
                     sorted[Len(sorted)])

\* [...filteredItems].sort(comparator)
RECURSIVE SortItems(_, _, _)
SortItems(filtered, key, direction) ==
    IF filtered = <<>> THEN <<>>
    ELSE InsertItem(SortItems(SubSeq(filtered, 1, Len(filtered) - 1), key, direction),
                    filtered[Len(filtered)], key, direction)

sortedItems == SortItems(view.filteredItems, sortKey, sortDirection)

\* a grouping that starts the group again at every element
PushToGroup_Restart(acc, key, element) ==
    IF \E g \in 1..Len(acc) : acc[g].name = key
    THEN [g \in 1..Len(acc) |->
             IF acc[g].name = key
             THEN [name |-> key, items |-> <<element>>]
             ELSE acc[g]]
    ELSE Append(acc, [name |-> key, items |-> <<element>>])

\* if (!acc[key]) acc[key] = <empty group>; then push: the groups of an
\* object, in the order their keys were created
PushToGroup(acc, key, element) ==
    IF \E g \in 1..Len(acc) : acc[g].name = key
    THEN [g \in 1..Len(acc) |->
             IF acc[g].name = key
             THEN [name |-> key, items |-> Append(acc[g].items, element)]
             ELSE acc[g]]
    ELSE Append(acc, [name |-> key, items |-> <<element>>])

\* sortedItems.reduce(..., {}) with key = item.category
RECURSIVE GroupByCategory(_)
GroupByCategory(sorted) ==
    IF sorted = <<>> THEN <<>>
    ELSE LET item == sorted[Len(sorted)]
         IN PushToGroup(GroupByCategory(SubSeq(sorted, 1, Len(sorted) - 1)),
                        item.category, item)

\* `${s.locationName} ${s.subLocationDetail ? ` - ${s.subLocationDetail}` : ''}`
LocationGroupKey(s) ==
    s.locationName \o <<" ">>
        \o (IF TruthyOpt(s.subLocationDetail)
            THEN <<" ", "-", " ">> \o s.subLocationDetail[1] ELSE <<>>)

\* item.locationsWithStock.forEach(s => ... push({ item, stock: s }))
RECURSIVE GroupStockRows(_, _, _)
GroupStockRows(acc, item, rows) ==
    IF rows = <<>> THEN acc
    ELSE GroupStockRows(PushToGroup(acc, LocationGroupKey(rows[1]),
                                    [item |-> item, stock |-> rows[1]]),
                        item, Tail(rows))

\* sortedItems.forEach(item => ...) filling locGroups
RECURSIVE GroupByLocation(_)
GroupByLocation(sorted) ==
    IF sorted = <<>> THEN <<>>
    ELSE LET item == sorted[Len(sorted)]
         IN GroupStockRows(GroupByLocation(SubSeq(sorted, 1, Len(sorted) - 1)),
                           item, item.locationsWithStock)

\* groups.sort((a, b) => a.name.localeCompare(b.name)), a stable sort
RECURSIVE InsertGroup(_, _)
InsertGroup(sorted, group) ==
    IF sorted = <<>> THEN <<group>>
    ELSE IF LocaleCompare(sorted[Len(sorted)].name, group.name) <= 0
         THEN Append(sorted, group)
         ELSE Append(InsertGroup(SubSeq(sorted, 1, Len(sorted) - 1), group),
                     sorted[Len(sorted)])

RECURSIVE SortGroups(_)
SortGroups(groups) ==
    IF groups = <<>> THEN <<>>
    ELSE InsertGroup(SortGroups(SubSeq(groups, 1, Len(groups) - 1)), groups[Len(groups)])

displayData ==
    IF groupBy = "category" THEN GroupByCategory(sortedItems)
    ELSE IF groupBy = "location" THEN SortGroups(GroupByLocation(sortedItems))
    ELSE sortedItems

\* the groups in the order the table body renders them; the category groups
\* are sorted by name when rendered
renderedGroups ==
    IF groupBy = "category" THEN SortGroups(displayData)
    ELSE IF groupBy = "location" THEN displayData
    ELSE <<>>

\* a row that shows the item's total in every group
ShownQuantity_Total(row) == row.item.totalQuantity

\* renderLocationGroupedRows: the quantity cell shows stockEntry.quantity
ShownQuantity(row) == row.stock.quantity

allVisibleSelected ==
    Len(sortedItems) > 0
    /\ \A i \in 1..Len(sortedItems) : sortedItems[i].id \in selectedItemIds

-----------------------------------------------------------------------------
(* The table over pools of items and stock rows: sort headers, group       *)
(* toggles, navigation, filters and the selection checkboxes                *)

MaxTableItems == 3

TableItemLower ==
    [id |-> <<"b">>, description |-> <<"q">>,
     category |-> Some(<<"Y">>), subCategory |-> Some(<<"r">>),
     priorUsage |-> Undefined, lowAlertQuantity |-> Some(3)]

TableItemUpper ==
    [id |-> <<"B">>, description |-> <<"p">>,
     category |-> Some(<<"Y">>), subCategory |-> Some(<<"r">>),
     priorUsage |-> Undefined, lowAlertQuantity |-> Undefined]

TableItemNoStock ==
    [id |-> <<"a">>, description |-> <<"p">>,
     category |-> Some(<<"Y">>), subCategory |-> Undefined,
     priorUsage |-> Undefined, lowAlertQuantity |-> Some(0)]

TableItemNoCategory ==
    [id |-> <<"C">>, description |-> <<"Q">>,
     category |-> Undefined, subCategory |-> Undefined,
     priorUsage |-> Undefined, lowAlertQuantity |-> Some(0)]

TableItemPool ==
    <<TableItemLower, TableItemNoCategory, TableItemUpper, TableItemNoStock>>

TableStockPool == <<
    StockRow(<<"b">>, WHC, 2, Undefined),
    StockRow(<<"C">>, WHJ, 1, Some(<<"t">>)),
    StockRow(<<"B">>, WHC, 3, Undefined),
    StockRow(<<"b">>, PROD, 1, Some(<<"s">>)) >>

TableSearchTexts == {<<>>, <<"p">>}

TableCategories == {<<>>, <<"Y">>}

TableLocations == {<<>>, WHC}

\* the table mounted by App over some items and the stock rows they have
InitTable ==
    /\ items \in SubLists(TableItemPool, MaxTableItems)
    /\ stock = SelectSeq(TableStockPool, LAMBDA s :
                      \E i \in 1..Len(items) : items[i].id = s.itemId)
    /\ categoryColors = initialColors
    /\ selectedItemIds = {}
    /\ searchQuery = <<>>
    /\ filterCategory = <<>>
    /\ filterLocation = <<>>
    /\ view = Derive(items, stock, <<>>, <<>>, <<>>)
    /\ last = [op |-> "init"]
    /\ nOps = 0
    /\ dbStock = <<>>
    /\ moves = NoMoves
    /\ TableInit
    /\ StoreInit

\* what the sort, grouping, navigation and selection handlers leave alone
TableRest ==
    UNCHANGED <<items, stock, categoryColors, searchQuery, filterCategory,
                filterLocation, view, nOps, dbStock, moves, selectedLocationView,
                dbItems, deletion, history, currentIndex, closure>>

\* a handler that restarts ascending also when the key is the current one
handleSort_AlwaysAscending(key) ==
    /\ sortKey' = key
    /\ sortDirection' = "asc"
    /\ UNCHANGED <<groupBy, currentView, selectedItemIds, last>>
    /\ TableRest

\* InventoryTable.handleSort, the onClick of a SortableHeader
handleSort(key) ==
    /\ IF sortKey = key
       THEN /\ sortDirection' = (IF sortDirection = "asc" THEN "desc" ELSE "asc")
            /\ sortKey' = sortKey
       ELSE /\ sortKey' = key
            /\ sortDirection' = "asc"
    /\ UNCHANGED <<groupBy, currentView, selectedItemIds, last>>
    /\ TableRest

\* the onChange of the GROUP BY CATEGORY toggle, rendered in the view 'all'
ToggleGroupByCategory ==
    /\ currentView = "all"
    /\ groupBy' = (IF groupBy = "category" THEN "none" ELSE "category")
    /\ UNCHANGED <<sortKey, sortDirection, currentView, selectedItemIds, last>>
    /\ TableRest

\* the onChange of the GROUP BY LOCATION toggle, rendered in the view 'all'
ToggleGroupByLocation ==
    /\ currentView = "all"
    /\ groupBy' = (IF groupBy = "location" THEN "none" ELSE "location")
    /\ UNCHANGED <<sortKey, sortDirection, currentView, selectedItemIds, last>>
    /\ TableRest

\* an effect that clears the grouping whatever the view is
GroupingOfView_None(v) == "none"

\* the grouping the effect on the view prop sets
GroupingOfView(v) ==
    IF v = "categories" THEN "category"
    ELSE IF v = "locations" THEN "location"
    ELSE "none"

\* NavigationView.handleSelect: App.setCurrentView, then the effect of
\* InventoryTable that runs when its view prop has changed
SelectView(v) ==
    /\ currentView' = v
    /\ groupBy' = (IF v # currentView THEN GroupingOfView(v) ELSE groupBy)
    /\ UNCHANGED <<sortKey, sortDirection, selectedItemIds, last>>
    /\ TableRest

\* an updater that starts from an empty set instead of a copy of prev
SelectedAfterSelectAll_Replace(prev, itemIds, select) ==
    IF select THEN itemIds ELSE {}

\* the updater of App.handleSelectAll
SelectedAfterSelectAll(prev, itemIds, select) ==
    IF select THEN prev \cup itemIds ELSE prev \ itemIds

\* the onChange of the SELECT ALL checkbox of the table header:
\* onSelectAll(sortedItems.map(i => i.id), !allVisibleSelected)
SelectAll ==
    LET itemIds == {sortedItems[i].id : i \in 1..Len(sortedItems)}
        select == ~allVisibleSelected
    IN /\ selectedItemIds' = SelectedAfterSelectAll(selectedItemIds, itemIds, select)
       /\ last' = [op |-> "selectAll", ok |-> TRUE, select |-> select]
       /\ UNCHANGED <<sortKey, sortDirection, groupBy, currentView>>
       /\ TableRest

\* the ids of the items that have a row, and so a checkbox, in the table
RowIds ==
    {sortedItems[i].id : i \in {j \in 1..Len(sortedItems) :
        groupBy = "location" => sortedItems[j].locationsWithStock # <<>>}}

\* the onChange of the checkbox of a row: App.handleSelectionChange
SelectionChange(itemId) ==
    /\ itemId \in RowIds
    /\ selectedItemIds' = (IF itemId \in selectedItemIds
                           THEN selectedItemIds \ {itemId}
                           ELSE selectedItemIds \cup {itemId})
    /\ last' = [op |-> "selectionChange", ok |-> TRUE]
    /\ UNCHANGED <<sortKey, sortDirection, groupBy, currentView>>
    /\ TableRest

NextTable ==
    \/ \E key \in SortKeys : handleSort(key)
    \/ ToggleGroupByCategory
    \/ ToggleGroupByLocation
    \/ \E v \in {"all", "categories", "locations"} : SelectView(v)
    \/ SelectAll
    \/ \E i \in 1..Len(items) : SelectionChange(items[i].id)
    \/ \E q \in TableSearchTexts : SetSearchQuery(q)
    \/ \E c \in TableCategories : SetFilterCategory(c)
    \/ \E l \in TableLocations : SetFilterLocation(l)

SpecTable == InitTable /\ [][NextTable]_vars

-----------------------------------------------------------------------------
(* The table with location tabs: the App that passes selectedLocationView  *)
(* as the locationView prop of InventoryTable                              *)

\* mappedItems of the table with location tabs: quantityInView sums stockInView
MapItemInLocationView(item, stk, locationView) ==
    LET allItemStock == AllItemStock(stk, item)
        stockInView == IF locationView = ALL THEN allItemStock
                       ELSE SelectSeq(allItemStock, LAMBDA s : s.locationId = locationView)
    IN [MapItem(item, stk) EXCEPT !.quantityInView = TotalQuantity(stockInView)]

\* filteredItems of the table with location tabs: under a tab, first the
\* items with quantityInView > 0, then the search, category and location stages
FilteredInLocationView(mapped, locationView, query, fCategory, fLocation) ==
    FilteredItems(IF locationView # ALL
                  THEN SelectSeq(mapped, LAMBDA item : item.quantityInView > 0)
                  ELSE mapped,
                  query, fCategory, fLocation)

DeriveInLocationView(its, stk, locationView, query, fCategory, fLocation) ==
    LET mapped == [i \in 1..Len(its) |-> MapItemInLocationView(its[i], stk, locationView)]
    IN [mappedItems |-> mapped,
        filteredItems |-> FilteredInLocationView(mapped, locationView, query,
                                                 fCategory, fLocation)]

InitTabs ==
    /\ items \in SubLists(ItemPool, MaxItems)
    /\ stock \in SubLists(StockPool, MaxStock)
    /\ categoryColors = initialColors
    /\ selectedItemIds = {}
    /\ searchQuery = <<>>
    /\ filterCategory = <<>>
    /\ filterLocation = <<>>
    /\ view = DeriveInLocationView(items, stock, ALL, <<>>, <<>>, <<>>)
    /\ last = [op |-> "init"]
    /\ nOps = 0
    /\ dbStock = <<>>
    /\ moves = NoMoves
    /\ TableInit
    /\ StoreInit

\* LocationTabs.onSelectLocation: setSelectedLocationView, and the render of
\* InventoryTable with the new locationView
SelectLocation(l) ==
    /\ selectedLocationView' = l
    /\ view' = DeriveInLocationView(items, stock, l, searchQuery, filterCategory,
                                    filterLocation)
    /\ UNCHANGED <<items, stock, categoryColors, selectedItemIds, searchQuery,
                   filterCategory, filterLocation, last, nOps, dbStock, moves,
                   sortKey, sortDirection, groupBy, currentView>>
    /\ StoreFrame

NextTabs == \E l \in {ALL} \cup LocationIds : SelectLocation(l)

SpecTabs == InitTabs /\ [][NextTabs]_vars

-----------------------------------------------------------------------------
(* Properties of sorting, grouping and selection *)

Reverse(s) == [i \in 1..Len(s) |-> s[Len(s) + 1 - i]]

\* the position in list of the item with this id
PositionOf(list, id) == CHOOSE i \in 1..Len(list) : list[i].id = id

\* C11: for the same filtered list the order sorted by id descending is the
\* exact reverse of the order sorted by id ascending; for every sort key and
\* every pair of items the descending comparator result is the negation of
\* the ascending one; and in either direction items with equal keys stay in
\* the order they have in the filtered list.
C11_SortDirections ==
    LET filtered == view.filteredItems
        sorted == sortedItems
    IN /\ SortItems(filtered, "id", "desc") = Reverse(SortItems(filtered, "id", "asc"))
       /\ (sortKey = "id" /\ sortDirection = "desc")
             => sorted = Reverse(SortItems(filtered, "id", "asc"))
       /\ \A key \in SortKeys : \A i, j \in 1..Len(filtered) :
             CompareItems(filtered[i], filtered[j], key, "desc")
                 = -CompareItems(filtered[i], filtered[j], key, "asc")
       /\ \A i, j \in 1..Len(sorted) :
             (i < j /\ CompareItems(sorted[i], sorted[j], sortKey, sortDirection) = 0)
                 => PositionOf(filtered, sorted[i].id) < PositionOf(filtered, sorted[j].id)

C11_Witness ==
    /\ sortKey = "category"
    /\ sortDirection = "desc"
    /\ Ids(view.filteredItems) = <<TableItemLower.id, TableItemUpper.id, TableItemNoStock.id>>
    /\ Ids(sortedItems) = <<TableItemLower.id, TableItemUpper.id, TableItemNoStock.id>>
    /\ CompareItems(sortedItems[1], sortedItems[2], sortKey, sortDirection) = 0
    /\ Ids(SortItems(view.filteredItems, "id", "desc"))
           = <<TableItemUpper.id, TableItemLower.id, TableItemNoStock.id>>

\* C12: the sort state starts at (id, ascending); selecting the key that
\* is the sort key flips the direction and keeps the key, selecting any
\* other key makes it the sort key with direction ascending, whatever the
\* direction was; every change of the sort state is one of these two.
C12_HandleSort ==
    /\ (sortKey = "id" /\ sortDirection = "asc")
    /\ [][(sortKey' # sortKey \/ sortDirection' # sortDirection) =>
             \/ (sortKey' = sortKey /\ sortDirection' # sortDirection
                 /\ sortDirection' \in {"asc", "desc"})
             \/ (sortKey' # sortKey /\ sortKey' \in SortKeys /\ sortDirection' = "asc")]_vars
    /\ [](\A key \in SortKeys :
             ENABLED (/\ handleSort(key)
                      /\ sortKey' = key
                      /\ sortDirection' =
                            (IF key # sortKey THEN "asc"
                             ELSE IF sortDirection = "asc" THEN "desc" ELSE "asc")))

C12_Witness ==
    /\ sortKey = "quantityInView"
    /\ sortDirection = "desc"

\* the rows of the by-location table, group after group
RECURSIVE RowsOfGroups(_)
RowsOfGroups(groups) ==
    IF groups = <<>> THEN <<>> ELSE groups[1].items \o RowsOfGroups(Tail(groups))

\* the stock row a row of the by-location table was made from
StockOfRow(row) ==
    StockRow(row.stock.itemId, row.stock.locationId, row.stock.quantity,
             row.stock.subLocationDetail)

\* C13: in by-location grouping every item of the sorted list has exactly
\* one row per stock row it has (none when it has no stock), each row is made
\* from one of the item's stock rows and shows the quantity of that stock
\* row, not the item's totalQuantity, and within a group the rows follow the
\* order of the sorted list.
C13_LocationRows ==
    groupBy = "location" =>
        LET sorted == sortedItems
            groups == renderedGroups
            rows == RowsOfGroups(groups)
        IN /\ \A r \in 1..Len(rows) :
                 /\ \E i \in 1..Len(sorted) : sorted[i].id = rows[r].item.id
                 /\ rows[r].stock.itemId = rows[r].item.id
                 /\ ShownQuantity(rows[r]) = StockOfRow(rows[r]).quantity
           /\ \A i \in 1..Len(sorted) :
                 /\ Cardinality({r \in 1..Len(rows) : rows[r].item.id = sorted[i].id})
                        = Cardinality(RowsOf(sorted[i].id))
                 /\ \A k \in RowsOf(sorted[i].id) :
                        Cardinality({r \in 1..Len(rows) :
                                        /\ rows[r].item.id = sorted[i].id
                                        /\ StockOfRow(rows[r]) = stock[k]})
                            = Cardinality({j \in RowsOf(sorted[i].id) : stock[j] = stock[k]})
           /\ \A g \in 1..Len(groups) : \A a, b \in 1..Len(groups[g].items) :
                 a < b => PositionOf(sorted, groups[g].items[a].item.id)
                              <= PositionOf(sorted, groups[g].items[b].item.id)

C13_Witness ==
    /\ groupBy = "location"
    /\ sortKey = "id"
    /\ sortDirection = "desc"
    /\ Ids(sortedItems) = <<TableItemUpper.id, TableItemLower.id, TableItemNoStock.id>>
    /\ LET rows == RowsOfGroups(renderedGroups)
       IN /\ Len(rows) = 3
          /\ {ShownQuantity(rows[r]) :
                 r \in {q \in 1..Len(rows) : rows[q].item.id = TableItemLower.id}} = {1, 2}
          /\ \A r \in 1..Len(rows) : rows[r].item.id = TableItemLower.id
                                        => rows[r].item.totalQuantity = 3
    /\ \E g \in 1..Len(renderedGroups) :
          /\ Len(renderedGroups[g].items) = 2
          /\ renderedGroups[g].items[1].item.id = TableItemUpper.id
          /\ renderedGroups[g].items[2].item.id = TableItemLower.id

\* the key the groups of the by-location table are stated to have
StatedLocationKey(s) ==
    IF TruthyOpt(s.subLocationDetail)
    THEN LocationName(s.locationId) \o <<" ", "-", " ">> \o s.subLocationDetail[1]
    ELSE LocationName(s.locationId)

\* C14: in by-location grouping the key of the group a stock row falls into
\* is exactly the location name when the row has no subLocationDetail, and
\* exactly the location name followed by " - " and the subLocationDetail
\* when it has one; the groups are in ascending order of this key.
C14_LocationKeys ==
    groupBy = "location" =>
        LET groups == renderedGroups
        IN /\ \A g \in 1..Len(groups) : \A r \in 1..Len(groups[g].items) :
                 groups[g].name = StatedLocationKey(groups[g].items[r].stock)
           /\ \A g \in 1..(Len(groups) - 1) :
                 LocaleCompare(groups[g].name, groups[g + 1].name) < 0

C16_SelectAll ==
    [][(last'.op = "selectAll"
        /\ (selectedItemIds' # selectedItemIds \/ last.op # "selectAll"))
       => LET ids == {view.filteredItems[i].id : i \in 1..Len(view.filteredItems)}
          IN /\ groupBy \in {"none", "category", "location"}
             /\ IF ids # {} /\ ids \subseteq selectedItemIds
                THEN /\ selectedItemIds' = selectedItemIds \ ids
                     /\ ~last'.select
                ELSE /\ selectedItemIds' = selectedItemIds \cup ids
                     /\ last'.select
             /\ \A id \in (selectedItemIds \cup selectedItemIds') \ ids :
                    id \in selectedItemIds' <=> id \in selectedItemIds]_vars

C16_Witness ==
    /\ last.op = "selectAll"
    /\ ~last.select
    /\ groupBy = "location"
    /\ searchQuery # <<>>
    /\ selectedItemIds # {}
    /\ \E i \in 1..Len(view.filteredItems) :
          view.filteredItems[i].locationsWithStock = <<>>
    /\ \A i \in 1..Len(view.filteredItems) :
          view.filteredItems[i].id \notin selectedItemIds

\* the number of derived items that are flagged
FlaggedCount(mapped) == Cardinality({i \in 1..Len(mapped) : mapped[i].isLowStock})

\* C19: the low-stock count of the application shell is the number of
\* items of the full item set whose derived isLowStock is true, and no
\* change of the search text, of the category or location filter, of the
\* sort or of the grouping changes it.
C19_LowStockCount ==
    /\ [](lowAlertItemCount(items, stock) = FlaggedCount(view.mappedItems))
    /\ [][lowAlertItemCount(items', stock') = lowAlertItemCount(items, stock)]_vars

C19_Witness ==
    /\ lowAlertItemCount(items, stock) = 2
    /\ Len(items) = 3
    /\ searchQuery # <<>>
    /\ filterLocation # <<>>
    /\ FlaggedCount(view.filteredItems) = 0
    /\ groupBy = "category"
    /\ sortKey = "quantityInView"
    /\ sortDirection = "desc"

\* C18: in every state of the view (location tab, filters) every derived
\* item's quantityInView is the item's totalQuantity, the sum of all its
\* stock rows; choosing a location changes which items are listed, not the
\* quantity of an item.
C18_QuantityInViewIsTotal ==
    /\ \A i \in 1..Len(view.mappedItems) :
          /\ view.mappedItems[i].totalQuantity = StockSum(view.mappedItems[i].id)
          /\ view.mappedItems[i].quantityInView = view.mappedItems[i].totalQuantity
    /\ \A j \in 1..Len(view.filteredItems) :
          view.filteredItems[j].quantityInView = view.filteredItems[j].totalQuantity

\* C26: the grouping mode is always one of none, by-category, by-location;
\* a switch of the view sets it to by-category for the categories view, to
\* by-location for the locations view and to none for the all view; in the
\* all view the category toggle leads to by-category from none and from
\* by-location (the other grouping goes off) and to none from by-category,
\* and the location toggle likewise; the mode changes in no other way
C26_GroupingMode ==
    /\ [](groupBy \in {"none", "category", "location"})
    /\ [][currentView' # currentView =>
             groupBy' = (IF currentView' = "categories" THEN "category"
                         ELSE IF currentView' = "locations" THEN "location"
                         ELSE "none")]_vars
    /\ [][(currentView' = currentView /\ groupBy' # groupBy) => currentView = "all"]_vars
    /\ [](currentView = "all" =>
             /\ ENABLED (/\ ToggleGroupByCategory
                         /\ groupBy' = (IF groupBy = "category" THEN "none"
                                        ELSE "category"))
             /\ ENABLED (/\ ToggleGroupByLocation
                         /\ groupBy' = (IF groupBy = "location" THEN "none"
                                        ELSE "location")))

\* back in the all view, with the grouping by location switched on by its
\* toggle
C26_Witness ==
    /\ currentView = "all"
    /\ groupBy = "location"

-----------------------------------------------------------------------------
(* The arrays of a render.  Array.prototype.sort sorts the array it is     *)
(* called on and returns that same array; filter, map, the spread and      *)
(* Object.values / Object.entries return a new array.  An array object is  *)
(* its place (an input prop, a memo, or a temporary) and its elements.     *)

ArrayObject(at, elems) == [at |-> at, elems |-> elems]

\* the result of filter, map, [...array], Object.values, Object.entries
NewArray(elems) == ArrayObject("temporary", elems)

\* receiver.sort(compare): the receiver, now holding the sorted elements
SortInPlace(receiver, sorted) == ArrayObject(receiver.at, sorted)

\* a map that writes the location names into the stock array itself, which
\* is then sorted
LocationRowsArray_SortsStock(stk, item) ==
    LET named == ArrayObject("stock", [i \in 1..Len(stk) |-> WithLocationName(stk[i])])
    IN SortInPlace(named, SortByLocationName(named.elems))

\* mappedItems: stock.filter(...) for the item, .map(...) over it, and .sort
\* on what map returned
LocationRowsArray(stk, item) ==
    LET allItemStock == NewArray(AllItemStock(ArrayObject("stock", stk).elems, item))
        named == NewArray([i \in 1..Len(allItemStock.elems) |->
                              WithLocationName(allItemStock.elems[i])])
    IN SortInPlace(named, SortByLocationName(named.elems))

\* filteredItems: result is mappedItems itself until a stage filters it
FilteredItemsArray ==
    IF Truthy(searchQuery) \/ Truthy(filterCategory) \/ Truthy(filterLocation)
    THEN NewArray(view.filteredItems)
    ELSE ArrayObject("mappedItems", view.filteredItems)

\* sortedItems: [...filteredItems].sort(...)
SortedItemsArray == SortInPlace(NewArray(FilteredItemsArray.elems), sortedItems)

\* the arrays a render sorts: the location rows of every item, the item
\* list, Object.values(locGroups) in displayData, and
\* Object.entries(displayData) in the table body
SortedArrays ==
    {LocationRowsArray(stock, items[i]) : i \in 1..Len(items)}
    \cup {SortedItemsArray}
    \cup (IF groupBy = "location"
          THEN {SortInPlace(NewArray(GroupByLocation(sortedItems)), displayData)}
          ELSE {})
    \cup (IF groupBy = "category"
          THEN {SortInPlace(NewArray(displayData), renderedGroups)}
          ELSE {})

\* the elements of the array at a place once the render has run
AfterRender(at, before) ==
    IF \E a \in SortedArrays : a.at = at
    THEN (CHOOSE a \in SortedArrays : a.at = at).elems
    ELSE before

-----------------------------------------------------------------------------
(* The in-memory App: the modal forms and the mutation handlers *)

\* String.prototype.trim
RECURSIVE TrimStart(_)
TrimStart(s) == IF s # <<>> /\ s[1] = " " THEN TrimStart(Tail(s)) ELSE s

RECURSIVE TrimEnd(_)
TrimEnd(s) ==
    IF s # <<>> /\ s[Len(s)] = " " THEN TrimEnd(SubSeq(s, 1, Len(s) - 1)) ELSE s

Trim(s) == TrimEnd(TrimStart(s))

DEFAULT_COLOR == "#000000"

\* the ids of the items of a list, as a set
ItemIds(its) == {its[i].id : i \in 1..Len(its)}

\* Array.prototype.findIndex over the stock rows of one item at one location,
\* 0 when there is none
FindStockIndex(stk, itemId, locationId) ==
    IF \E k \in 1..Len(stk) : stk[k].itemId = itemId /\ stk[k].locationId = locationId
    THEN CHOOSE k \in 1..Len(stk) :
             /\ stk[k].itemId = itemId /\ stk[k].locationId = locationId
             /\ \A j \in 1..(k - 1) :
                    ~(stk[j].itemId = itemId /\ stk[j].locationId = locationId)
    ELSE 0

\* the filter every stock-writing handler but the import ends with
PositiveRows(stk) == SelectSeq(stk, LAMBDA s : s.quantity > 0)

\* nextColors of handleAddItem and handleEditItem
NextColors(colors, item, toSave) ==
    LET c1 == IF TruthyOpt(item.category) /\ toSave.category # Undefined
              THEN (item.category[1] :> toSave.category[1]) @@ colors
              ELSE colors
    IN IF TruthyOpt(item.subCategory) /\ toSave.subCategory # Undefined
       THEN (item.subCategory[1] :> toSave.subCategory[1]) @@ c1
       ELSE c1

\* the colour a modal's picker holds for a typed label: the stored colour of a
\* known label, otherwise the colour the picker started with
PickerColor(label, colors, initial) ==
    IF Truthy(label) /\ label \in DOMAIN colors THEN colors[label] ELSE initial

\* colorsToSave of AddItemModal.handleSubmit and EditItemModal.handleSubmit
ColorsToSave(category, categoryColor, subCategory, subCategoryColor) ==
    [category |-> IF Truthy(Trim(category)) THEN Some(categoryColor) ELSE Undefined,
     subCategory |-> IF Truthy(Trim(subCategory)) THEN Some(subCategoryColor)
                     ELSE Undefined]

\* the prompt of a location, undefined when the location has none or is unknown
SubLocationPrompt(locationId) ==
    IF \E i \in 1..Len(locations) : locations[i].id = locationId
    THEN locations[CHOOSE i \in 1..Len(locations) :
                       locations[i].id = locationId].subLocationPrompt
    ELSE Undefined

(* AddItemModal *)

\* a stock entry of the add form
StockEntry(locationId, quantity, subLocationDetail) ==
    [locationId |-> locationId, quantity |-> quantity,
     subLocationDetail |-> subLocationDetail]

\* the state of the add form when it is submitted; lowAlertQuantity and the
\* usage entries hold what parseInt makes of the typed text
AddForm(id, description, category, subCategory, stockEntries, source, poNumber, dateReceived, lowAlertQuantity, priorUsage) ==
    [id |-> id, description |-> description, category |-> category,
     subCategory |-> subCategory, stockEntries |-> stockEntries,
     source |-> source, poNumber |-> poNumber, dateReceived |-> dateReceived,
     lowAlertQuantity |-> lowAlertQuantity, priorUsage |-> priorUsage]

\* the add form opened to duplicate an item: description, category,
\* subCategory, usage and threshold are prefilled, the id and the stock
\* entries are typed
DuplicateForm(itemToDuplicate, id, stockEntries) ==
    AddForm(id, itemToDuplicate.description,
            OrElse(itemToDuplicate.category, <<>>),
            OrElse(itemToDuplicate.subCategory, <<>>),
            stockEntries, "OH", <<>>, <<>>,
            itemToDuplicate.lowAlertQuantity,
            IF itemToDuplicate.priorUsage = Undefined THEN <<>>
            ELSE itemToDuplicate.priorUsage[1])

\* a submit handler without the check of the id against the existing ids
AddRejected_NoIdCheck(form, existingItemIds) ==
    \/ ~Truthy(Trim(form.id)) \/ ~Truthy(Trim(form.description))
    \/ \E k \in 1..Len(form.stockEntries) :
           form.stockEntries[k].quantity <= 0 \/ ~Truthy(form.stockEntries[k].locationId)
    \/ form.source = "PO" /\ (~Truthy(Trim(form.poNumber)) \/ ~Truthy(Trim(form.dateReceived)))

\* the early returns of AddItemModal.handleSubmit
AddRejected(form, existingItemIds) ==
    \/ Trim(form.id) \in existingItemIds
    \/ ~Truthy(Trim(form.id)) \/ ~Truthy(Trim(form.description))
    \/ \E k \in 1..Len(form.stockEntries) :
           form.stockEntries[k].quantity <= 0 \/ ~Truthy(form.stockEntries[k].locationId)
    \/ form.source = "PO" /\ (~Truthy(Trim(form.poNumber)) \/ ~Truthy(Trim(form.dateReceived)))

\* the item AddItemModal.handleSubmit hands to onAddItem
AddedItem(form) ==
    [id |-> Trim(form.id), description |-> Trim(form.description),
     category |-> Some(Trim(form.category)),
     subCategory |-> Some(Trim(form.subCategory)),
     priorUsage |-> IF Len(form.priorUsage) > 0 THEN Some(form.priorUsage)
                    ELSE Undefined,
     lowAlertQuantity |-> form.lowAlertQuantity]

\* finalStockEntries of AddItemModal.handleSubmit
FinalStockEntries(form) ==
    [k \in 1..Len(form.stockEntries) |->
        LET entry == form.stockEntries[k]
        IN [locationId |-> entry.locationId, quantity |-> entry.quantity,
            subLocationDetail |->
                IF TruthyOpt(SubLocationPrompt(entry.locationId))
                THEN Some(entry.subLocationDetail) ELSE Undefined,
            source |-> form.source,
            poNumber |-> IF form.source = "PO" THEN Some(form.poNumber) ELSE Undefined,
            dateReceived |-> IF form.source = "PO" THEN Some(form.dateReceived)
                             ELSE Undefined]]

\* App.handleAddItem: the next appState
handleAddItem(item, newStockEntries, colors) ==
    [items |-> Append(items, item),
     stock |-> stock \o [k \in 1..Len(newStockEntries) |->
                            [itemId |-> item.id,
                             locationId |-> newStockEntries[k].locationId,
                             quantity |-> newStockEntries[k].quantity,
                             subLocationDetail |-> newStockEntries[k].subLocationDetail,
                             source |-> newStockEntries[k].source,
                             poNumber |-> newStockEntries[k].poNumber,
                             dateReceived |-> newStockEntries[k].dateReceived]],
     categoryColors |-> NextColors(categoryColors, item, colors)]

(* EditItemModal *)

\* localStock of the edit form when it opens
LocalStock(rows) ==
    [k \in 1..Len(rows) |->
        [row |-> rows[k], isNew |-> FALSE]]

\* the entry EditItemModal.handleAddStockEntry appends, with the location and
\* quantity typed into it afterwards
NewLocalEntry(itemId, locationId, quantity) ==
    [row |-> [itemId |-> itemId, locationId |-> locationId, quantity |-> quantity,
              subLocationDetail |-> Some(<<>>), source |-> "OH",
              poNumber |-> Undefined, dateReceived |-> Undefined],
     isNew |-> TRUE]

\* EditItemModal.availableLocations: the locations no entry of the form uses
availableLocations(localStock) ==
    {l \in LocationIds : \A k \in 1..Len(localStock) : localStock[k].row.locationId # l}

\* the state of the edit form when it is submitted
EditForm(description, category, subCategory, lowAlertQuantity, priorUsage, localStock) ==
    [description |-> description, category |-> category,
     subCategory |-> subCategory, lowAlertQuantity |-> lowAlertQuantity,
     priorUsage |-> priorUsage, localStock |-> localStock]

\* the edit form as it opens on an item
OpenEditForm(item, rows) ==
    EditForm(item.description, OrElse(item.category, <<>>),
             OrElse(item.subCategory, <<>>), item.lowAlertQuantity,
             IF item.priorUsage = Undefined THEN <<>> ELSE item.priorUsage[1],
             LocalStock(rows))

\* the early returns of EditItemModal.handleSubmit
EditRejected(form) ==
    \/ ~Truthy(Trim(form.description))
    \/ \E k \in 1..Len(form.localStock) :
           /\ form.localStock[k].isNew
           /\ \/ ~Truthy(form.localStock[k].row.locationId)
              \/ form.localStock[k].row.quantity <= 0

\* the item EditItemModal.handleSubmit hands to onEditItem
EditedItem(item, form) ==
    [item EXCEPT !.description = Trim(form.description),
                 !.category = Some(Trim(form.category)),
                 !.subCategory = Some(Trim(form.subCategory)),
                 !.priorUsage = IF Len(form.priorUsage) > 0 THEN Some(form.priorUsage)
                                ELSE Undefined,
                 !.lowAlertQuantity = form.lowAlertQuantity]

\* finalStock of EditItemModal.handleSubmit
FinalStock(form) == [k \in 1..Len(form.localStock) |-> form.localStock[k].row]

\* App.handleEditItem: the next appState
handleEditItem(updatedItem, updatedStockForThisItem, colors) ==
    LET otherItemsStock == SelectSeq(stock, LAMBDA s : s.itemId # updatedItem.id)
    IN [items |-> [i \in 1..Len(items) |->
                      IF items[i].id = updatedItem.id THEN updatedItem ELSE items[i]],
        stock |-> PositiveRows(otherItemsStock \o updatedStockForThisItem),
        categoryColors |-> NextColors(categoryColors, updatedItem, colors)]

(* MoveStockModal *)

\* MoveStockModal.availableFromLocations
availableFromLocations(itemId) ==
    {l \in LocationIds : \E k \in 1..Len(stock) :
                             stock[k].itemId = itemId /\ stock[k].locationId = l}

\* MoveStockModal.maxQuantity
maxQuantity(itemId, fromLocationId) ==
    LET k == FindStockIndex(stock, itemId, fromLocationId)
    IN IF k = 0 THEN 0 ELSE stock[k].quantity

\* a submit handler without the check of the quantity against maxQuantity
MoveRejected_NoMaximum(itemId, fromLocationId, toLocationId, quantity) ==
    \/ ~Truthy(fromLocationId) \/ ~Truthy(toLocationId)
    \/ fromLocationId = toLocationId
    \/ quantity <= 0

\* the early returns of MoveStockModal.handleSubmit
MoveRejected(itemId, fromLocationId, toLocationId, quantity) ==
    \/ ~Truthy(fromLocationId) \/ ~Truthy(toLocationId)
    \/ fromLocationId = toLocationId
    \/ quantity <= 0
    \/ quantity > maxQuantity(itemId, fromLocationId)

\* App.handleMoveStock: the next stock
handleMoveStock(itemId, fromLocationId, toLocationId, quantity, toSubLocationDetail) ==
    LET fromStockIndex == FindStockIndex(stock, itemId, fromLocationId)
    IN IF fromStockIndex = 0 THEN stock
       ELSE LET fromStock == stock[fromStockIndex]
                debited == [stock EXCEPT ![fromStockIndex].quantity = @ - quantity]
                toStockIndex == FindStockIndex(debited, itemId, toLocationId)
                newStock ==
                    IF toStockIndex > 0
                    THEN [debited EXCEPT
                            ![toStockIndex].quantity = @ + quantity,
                            ![toStockIndex].subLocationDetail =
                                IF Truthy(toSubLocationDetail)
                                THEN Some(toSubLocationDetail) ELSE @]
                    ELSE Append(debited,
                                [itemId |-> itemId, locationId |-> toLocationId,
                                 quantity |-> quantity,
                                 subLocationDetail |-> Some(toSubLocationDetail),
                                 source |-> fromStock.source,
                                 poNumber |-> fromStock.poNumber,
                                 dateReceived |-> fromStock.dateReceived])
            IN PositiveRows(newStock)

(* ImportDataModal *)

\* a data row of a CSV file with the columns ID, DESCRIPTION, LOCATION, QTY,
\* CATEGORY and LOW_ALERT_QTY, after parseCsvLine; qty and lowAlertQty hold
\* what parseInt makes of the cell, undefined standing for NaN
CsvRow(id, description, location, qty, category, lowAlertQty) ==
    [id |-> id, description |-> description, location |-> location, qty |-> qty,
     category |-> category, lowAlertQty |-> lowAlertQty]

\* the rows ImportDataModal.parseCSV does not skip
ValidRows(rows) ==
    SelectSeq(rows, LAMBDA r : /\ Truthy(Trim(r.id))
                               /\ Truthy(Trim(r.description))
                               /\ Truthy(Trim(r.location))
                               /\ r.qty # Undefined)

\* itemsMap of ImportDataModal.parseCSV: one item per id, made from the first
\* valid row that names it
RECURSIVE ParsedItems(_, _)
ParsedItems(rows, seen) ==
    IF rows = <<>> THEN <<>>
    ELSE LET r == Head(rows)
             id == Trim(r.id)
         IN IF id \in seen THEN ParsedItems(Tail(rows), seen)
            ELSE <<[id |-> id, description |-> Trim(r.description),
                    category |-> Some(Trim(r.category)),
                    subCategory |-> Undefined,
                    priorUsage |-> Undefined,
                    lowAlertQuantity |-> r.lowAlertQty]>>
                 \o ParsedItems(Tail(rows), seen \cup {id})

\* ImportDataModal.parseCSV over the data rows of a file
parseCSV(rows) ==
    LET valid == ValidRows(rows)
    IN [items |-> ParsedItems(valid, {}),
        stock |-> [k \in 1..Len(valid) |->
                      [itemId |-> Trim(valid[k].id),
                       locationId |-> Trim(valid[k].location),
                       quantity |-> valid[k].qty[1],
                       subLocationDetail |-> Undefined, source |-> "OH",
                       poNumber |-> Undefined, dateReceived |-> Undefined]]]

\* a lookup that compares the location name as it is typed
LocationIdOfName_CaseSensitive(name) ==
    IF \E i \in 1..Len(locations) : locations[i].name = name
    THEN Some(locations[CHOOSE i \in 1..Len(locations) : locations[i].name = name].id)
    ELSE Undefined

\* locationNameToId.get of App.handleImportData: the id of the location whose
\* upper-cased name is the upper-cased text, undefined when there is none
LocationIdOfName(name) ==
    IF \E i \in 1..Len(locations) : ToUpperCase(locations[i].name) = ToUpperCase(name)
    THEN Some(locations[CHOOSE i \in 1..Len(locations) :
                  /\ ToUpperCase(locations[i].name) = ToUpperCase(name)
                  /\ \A j \in (i + 1)..Len(locations) :
                         ToUpperCase(locations[j].name) # ToUpperCase(name)].id)
    ELSE Undefined

\* validImportedStock of App.handleImportData
ValidImportedStock(importedStock) ==
    LET known == SelectSeq(importedStock,
                           LAMBDA s : LocationIdOfName(s.locationId) # Undefined)
    IN [k \in 1..Len(known) |->
           [known[k] EXCEPT !.locationId = LocationIdOfName(known[k].locationId)[1]]]

\* skippedStockEntries of App.handleImportData
SkippedStockEntries(importedStock) ==
    SelectSeq(importedStock, LAMBDA s : LocationIdOfName(s.locationId) = Undefined)

\* mergedItem of App.handleImportData
MergedItem(its, item) ==
    [item EXCEPT !.priorUsage =
        IF item.priorUsage # Undefined /\ Len(item.priorUsage[1]) > 0
        THEN item.priorUsage
        ELSE IF \E i \in 1..Len(its) : its[i].id = item.id
             THEN its[CHOOSE i \in 1..Len(its) : its[i].id = item.id].priorUsage
             ELSE Undefined]

\* itemMap.set over the imported items, in order: an existing id keeps its
\* place, a new id goes to the end
RECURSIVE MergeItems(_, _)
MergeItems(its, importedItems) ==
    IF importedItems = <<>> THEN its
    ELSE LET item == Head(importedItems)
             merged == MergedItem(its, item)
             next == IF \E i \in 1..Len(its) : its[i].id = item.id
                     THEN [i \in 1..Len(its) |->
                              IF its[i].id = item.id THEN merged ELSE its[i]]
                     ELSE Append(its, merged)
         IN MergeItems(next, Tail(importedItems))

\* an import that adds the recognized rows to the stock it finds
handleImportData_KeepsOldStock(importedItems, importedStock) ==
    [items |-> MergeItems(items, importedItems),
     stock |-> stock \o ValidImportedStock(importedStock)]

\* App.handleImportData: the next appState
handleImportData(importedItems, importedStock) ==
    LET importedItemIds == ItemIds(importedItems)
        stockToKeep == SelectSeq(stock, LAMBDA s : s.itemId \notin importedItemIds)
    IN [items |-> MergeItems(items, importedItems),
        stock |-> stockToKeep \o ValidImportedStock(importedStock)]

(* BulkEditModal *)

\* the changes BulkEditModal.handleSubmit collects: a field is set when its
\* checkbox is ticked, and then holds the text of its input
BulkChanges(description, category, subCategory) ==
    [description |-> description, category |-> category, subCategory |-> subCategory]

\* the early return of BulkEditModal.handleSubmit
BulkRejected(changes) ==
    changes.description = Undefined /\ changes.category = Undefined
        /\ changes.subCategory = Undefined

\* App.handleBulkUpdate: the next items
handleBulkUpdate(changes) ==
    [i \in 1..Len(items) |->
        IF items[i].id \in selectedItemIds
        THEN [items[i] EXCEPT
                !.description = IF changes.description # Undefined
                                THEN changes.description[1] ELSE @,
                !.category = IF changes.category # Undefined
                             THEN changes.category ELSE @,
                !.subCategory = IF changes.subCategory # Undefined
                                THEN changes.subCategory ELSE @]
        ELSE items[i]]

(* Bounds and inputs of the in-memory App *)

\* number of mutations in a run
MaxOps == 2

NewId == <<"N">>

CatX == <<"X">>

\* stock entries typed into the add form
AddEntries ==
    { <<StockEntry(WHJ, 5, <<"s">>)>>,
      <<StockEntry(WHJ, 5, <<>>), StockEntry(WHJ, 2, <<>>)>>,
      <<StockEntry(WHC, 4, <<>>), StockEntry(PROD, 3, <<>>)>>,
      <<StockEntry(WHC, 0, <<>>)>> }

\* add forms: a new id typed with a leading blank, the id of an initial item,
\* a blank id; a purchase order with and without its number
AddForms ==
    { AddForm(id, <<"d">>, <<"X"," ">>, <<>>, entries, "OH", <<>>, <<>>,
              Undefined, <<>>) :
          id \in {<<" ">> \o NewId, SAMP11, <<" ">>}, entries \in AddEntries }
    \cup
    { AddForm(NewId, <<"d">>, <<>>, RED, <<StockEntry(INSPECT, 6, <<>>)>>, "PO",
              po, <<"1">>, Some(6), <<>>) : po \in {<<>>, <<"7">>} }

\* forms opened by duplicating an item of the list
DuplicateForms(its) ==
    { DuplicateForm(its[i], id, <<StockEntry(WHJ, 5, <<>>)>>) :
          i \in 1..Len(its), id \in {NewId, SAMP15} }

EditQuantities == {0, 7}

EditLocations == {WHK, WHJ}

\* sequence s without its k-th element
RemoveAt(s, k) == SubSeq(s, 1, k - 1) \o SubSeq(s, k + 1, Len(s))

\* edit forms on an item: submitted as opened, with the description blanked,
\* with another category, with one quantity retyped, with one entry removed,
\* with one entry added
EditForms(item, rows) ==
    LET open == OpenEditForm(item, rows)
        n == Len(rows)
    IN {open,
        [open EXCEPT !.description = <<" ">>],
        [open EXCEPT !.category = CatX, !.lowAlertQuantity = Undefined]}
       \cup {[open EXCEPT !.localStock[k].row.quantity = q] :
                k \in 1..n, q \in EditQuantities}
       \cup {[open EXCEPT !.localStock = RemoveAt(@, k)] : k \in 1..n}
       \cup {[open EXCEPT !.localStock = Append(@, NewLocalEntry(item.id, l, q))] :
                l \in (availableLocations(open.localStock) \cap EditLocations)
                       \cup {<<>>},
                q \in {0, 5}}

MoveTargets == {<<>>, WHC, PROD, WHK}

MoveQuantities == {0, 25, 75}

MoveDetails == {<<>>}

\* the bulk edit form submitted with no box ticked, with a description, with
\* an emptied category and a sub-category
BulkForms ==
    { BulkChanges(Undefined, Undefined, Undefined),
      BulkChanges(Some(<<"z">>), Undefined, Undefined),
      BulkChanges(Undefined, Some(<<>>), Some(RED)) }

\* the data rows of the CSV files offered to the import
CsvFiles ==
    { <<CsvRow(SAMP11, <<"d">>, <<"w","h","-","k">>, Some(10), <<>>, Undefined)>>,
      <<CsvRow(NewId, <<"d">>, <<"W","H","-","C">>, Some(0), CatX, Some(1))>>,
      <<CsvRow(NewId, <<"d">>, <<"W","H","-","C">>, Some(5), CatX, Undefined),
        CsvRow(NewId, <<"e">>, <<"W","H","-","C">>, Some(7), <<>>, Undefined)>>,
      <<CsvRow(SAMP15, <<"d">>, <<"Y","A","R","D">>, Some(5), <<>>, Undefined),
        CsvRow(SAMP15, <<"d">>, <<" ","P","R","O","D">>, Some(-3), <<>>, Undefined)>>,
      <<CsvRow(SAMP15, <<>>, <<"P","R","O","D">>, Some(5), <<>>, Undefined),
        CsvRow(NewId, <<"d">>, <<"P","R","O","D">>, Undefined, <<>>, Undefined),
        CsvRow(NewId, <<"d">>, <<"W","H","-","J">>, Some(2), <<>>, Undefined)>> }

(* The in-memory App as a state machine *)

Init ==
    /\ items = initialItems
    /\ stock = initialStock
    /\ categoryColors = initialColors
    /\ selectedItemIds = {}
    /\ searchQuery = <<>>
    /\ filterCategory = <<>>
    /\ filterLocation = <<>>
    /\ view = Derive(items, stock, <<>>, <<>>, <<>>)
    /\ last = [op |-> "init"]
    /\ nOps = 0
    /\ dbStock = <<>>
    /\ moves = NoMoves
    /\ TableInit
    /\ StoreInit

\* what every mutation of appState leaves alone
AppFrame ==
    /\ UNCHANGED <<searchQuery, filterCategory, filterLocation, dbStock, moves>>
    /\ TableFrame
    /\ StoreFrame

\* the render that follows a change of appState
Render ==
    view' = Derive(items', stock', searchQuery, filterCategory, filterLocation)

\* AddItemModal.handleSubmit, then App.handleAddItem when the form is valid
AddItem(form) ==
    /\ nOps < MaxOps
    /\ nOps' = nOps + 1
    /\ IF AddRejected(form, ItemIds(items))
       THEN /\ UNCHANGED <<items, stock, categoryColors>>
            /\ last' = [op |-> "add", ok |-> FALSE, itemId |-> Trim(form.id)]
       ELSE LET item == AddedItem(form)
                colors == ColorsToSave(
                              form.category,
                              PickerColor(form.category, categoryColors, DEFAULT_COLOR),
                              form.subCategory,
                              PickerColor(form.subCategory, categoryColors, DEFAULT_COLOR))
                next == handleAddItem(item, FinalStockEntries(form), colors)
            IN /\ items' = next.items
               /\ stock' = next.stock
               /\ categoryColors' = next.categoryColors
               /\ last' = [op |-> "add", ok |-> TRUE, itemId |-> item.id]
    /\ UNCHANGED selectedItemIds
    /\ AppFrame
    /\ Render

\* EditItemModal.handleSubmit on items[i], then App.handleEditItem when the
\* form is valid
EditItem(i, form) ==
    /\ nOps < MaxOps
    /\ nOps' = nOps + 1
    /\ IF EditRejected(form)
       THEN /\ UNCHANGED <<items, stock, categoryColors>>
            /\ last' = [op |-> "edit", ok |-> FALSE, itemId |-> items[i].id]
       ELSE LET item == items[i]
                initialCategoryColor ==
                    PickerColor(OrElse(item.category, <<>>), categoryColors, DEFAULT_COLOR)
                initialSubCategoryColor ==
                    PickerColor(OrElse(item.subCategory, <<>>), categoryColors, DEFAULT_COLOR)
                colors == ColorsToSave(
                              form.category,
                              PickerColor(form.category, categoryColors, initialCategoryColor),
                              form.subCategory,
                              PickerColor(form.subCategory, categoryColors,
                                          initialSubCategoryColor))
                next == handleEditItem(EditedItem(item, form), FinalStock(form), colors)
            IN /\ items' = next.items
               /\ stock' = next.stock
               /\ categoryColors' = next.categoryColors
               /\ last' = [op |-> "edit", ok |-> TRUE, itemId |-> item.id]
    /\ UNCHANGED selectedItemIds
    /\ AppFrame
    /\ Render

\* MoveStockModal.handleSubmit on items[i], then App.handleMoveStock when the
\* form is valid
MoveStock(i, fromLocationId, toLocationId, quantity, toSubLocationDetail) ==
    /\ nOps < MaxOps
    /\ nOps' = nOps + 1
    /\ LET itemId == items[i].id
           rejected == MoveRejected(itemId, fromLocationId, toLocationId, quantity)
       IN /\ stock' = IF rejected THEN stock
                      ELSE handleMoveStock(itemId, fromLocationId, toLocationId,
                                           quantity, toSubLocationDetail)
          /\ last' = [op |-> "move", ok |-> ~rejected, itemId |-> itemId,
                      fromLocationId |-> fromLocationId,
                      toLocationId |-> toLocationId, quantity |-> quantity]
    /\ UNCHANGED <<items, categoryColors, selectedItemIds>>
    /\ AppFrame
    /\ Render

\* ImportDataModal: parseCSV of the chosen file, then App.handleImportData
ImportData(rows) ==
    /\ nOps < MaxOps
    /\ nOps' = nOps + 1
    /\ LET parsed == parseCSV(rows)
           next == handleImportData(parsed.items, parsed.stock)
       IN /\ items' = next.items
          /\ stock' = next.stock
          /\ last' = [op |-> "import", ok |-> TRUE,
                      importedItems |-> parsed.items,
                      importedStock |-> parsed.stock,
                      skipped |-> SkippedStockEntries(parsed.stock)]
    /\ UNCHANGED <<categoryColors, selectedItemIds>>
    /\ AppFrame
    /\ Render

\* App.handleDeleteItem on items[i]; confirmed is the answer to window.confirm
DeleteItem(i, confirmed) ==
    /\ nOps < MaxOps
    /\ nOps' = nOps + 1
    /\ LET itemId == items[i].id
       IN /\ items' = IF confirmed
                      THEN SelectSeq(items, LAMBDA item : item.id # itemId)
                      ELSE items
          /\ stock' = IF confirmed
                      THEN SelectSeq(stock, LAMBDA s : s.itemId # itemId)
                      ELSE stock
          /\ selectedItemIds' = IF confirmed THEN selectedItemIds \ {itemId}
                                ELSE selectedItemIds
          /\ last' = [op |-> "delete", ok |-> confirmed, itemId |-> itemId]
    /\ UNCHANGED categoryColors
    /\ AppFrame
    /\ Render

\* BulkEditModal.handleSubmit, then App.handleBulkUpdate when a box is ticked;
\* the BULK EDIT button is rendered while some item is selected
BulkUpdate(changes) ==
    /\ nOps < MaxOps
    /\ selectedItemIds # {}
    /\ nOps' = nOps + 1
    /\ IF BulkRejected(changes)
       THEN /\ UNCHANGED <<items, selectedItemIds>>
            /\ last' = [op |-> "bulk", ok |-> FALSE]
       ELSE /\ items' = handleBulkUpdate(changes)
            /\ selectedItemIds' = {}
            /\ last' = [op |-> "bulk", ok |-> TRUE]
    /\ UNCHANGED <<stock, categoryColors>>
    /\ AppFrame
    /\ Render

Next ==
    \/ \E form \in AddForms \cup DuplicateForms(items) : AddItem(form)
    \/ \E i \in 1..Len(items) :
           \E form \in EditForms(items[i], AllItemStock(stock, items[i])) :
               EditItem(i, form)
    \/ \E i \in 1..Len(items) :
           \E f \in {<<>>} \cup availableFromLocations(items[i].id),
              t \in MoveTargets, q \in MoveQuantities, d \in MoveDetails :
               MoveStock(i, f, t, q, d)
    \/ \E rows \in CsvFiles : ImportData(rows)
    \/ \E i \in 1..Len(items), confirmed \in BOOLEAN : DeleteItem(i, confirmed)

Spec == Init /\ [][Next]_vars

\* the App with the handlers that write the item collection (add and
\* duplicate, edit, bulk edit, import, delete) and the row checkboxes the
\* bulk edit acts on
NextItems ==
    \/ \E form \in AddForms \cup DuplicateForms(items) : AddItem(form)
    \/ \E i \in 1..Len(items) :
           \E form \in EditForms(items[i], AllItemStock(stock, items[i])) :
               EditItem(i, form)
    \/ \E rows \in CsvFiles : ImportData(rows)
    \/ \E i \in 1..Len(items), confirmed \in BOOLEAN : DeleteItem(i, confirmed)
    \/ \E i \in 1..Len(items) : SelectionChange(items[i].id)
    \/ \E changes \in BulkForms : BulkUpdate(changes)

SpecItems == Init /\ [][NextItems]_vars

-----------------------------------------------------------------------------
(* useHistoryState: the undo history of appState                           *)

\* number of snapshots a history holds in a run
MaxHistory == 3

\* number of calls made through the callbacks of one render
MaxCalls == 2

\* JSON.stringify of an object: its properties in order, the ones whose
\* value is undefined left out
JSONobject(o, always, optional) ==
    [k \in 1..Len(always) |-> <<always[k], o[always[k]]>>]
        \o SelectSeq([k \in 1..Len(optional) |-> <<optional[k], o[optional[k]]>>],
                     LAMBDA p : p[2] # Undefined)

\* a serialisation that writes the ids of the items only
JSONstringify_IdsOnly(state) ==
    [i \in 1..Len(state.items) |-> state.items[i].id]

\* JSON.stringify of an appState
JSONstringify(state) ==
    [items |-> [i \in 1..Len(state.items) |->
                   JSONobject(state.items[i], <<"id", "description">>,
                              <<"category", "subCategory", "priorUsage",
                                "lowAlertQuantity">>)],
     stock |-> [k \in 1..Len(state.stock) |->
                   JSONobject(state.stock[k],
                              <<"itemId", "locationId", "quantity", "source">>,
                              <<"subLocationDetail", "poNumber", "dateReceived">>)],
     categoryColors |-> state.categoryColors]

\* a push that keeps the snapshots after the current one
NewHistory_KeepsTail(h, index, nextState) == Append(h, nextState)

\* newHistory of setState: history.slice(0, currentIndex + 1), then the push
NewHistory(h, index, nextState) == Append(SubSeq(h, 1, index + 1), nextState)

\* canUndo and canRedo of the render that follows
canUndo == currentIndex > 0

canRedo == currentIndex < Len(history) - 1

\* history[currentIndex] of the last render: the appState its handlers got
RenderedState == closure.history[closure.currentIndex + 1]

\* the updater of App.handleDeleteItem, applied to prev
DeleteUpdater(prev, itemId) ==
    [prev EXCEPT !.items = SelectSeq(@, LAMBDA item : item.id # itemId),
                 !.stock = SelectSeq(@, LAMBDA s : s.itemId # itemId)]

\* the updater of App.handleEditItem called without colors, applied to prev
EditUpdater(prev, updatedItem) ==
    [prev EXCEPT !.items = [i \in 1..Len(@) |->
                               IF @[i].id = updatedItem.id THEN updatedItem ELSE @[i]]]

\* the descriptions an edit submits: the one of the item, and another
EditDescriptions(item) == {item.description, <<"z">>}

\* the App over useHistoryState, as first rendered
InitHistory ==
    /\ items = initialItems
    /\ stock = initialStock
    /\ categoryColors = initialColors
    /\ selectedItemIds = {}
    /\ searchQuery = <<>>
    /\ filterCategory = <<>>
    /\ filterLocation = <<>>
    /\ view = Derive(items, stock, <<>>, <<>>, <<>>)
    /\ last = [op |-> "init"]
    /\ nOps = 0
    /\ dbStock = <<>>
    /\ moves = NoMoves
    /\ TableInit
    /\ dbItems = {}
    /\ deletion = NoDeletion
    /\ history = <<[items |-> initialItems, stock |-> initialStock,
                    categoryColors |-> initialColors]>>
    /\ currentIndex = 0
    /\ closure = [history |-> history, currentIndex |-> 0, calls |-> 0]

\* what a call of a callback of the hook leaves alone: the values of the
\* last render
CallFrame ==
    /\ UNCHANGED <<items, stock, categoryColors, selectedItemIds, searchQuery,
                   filterCategory, filterLocation, view, nOps, dbStock, moves,
                   dbItems, deletion>>
    /\ TableFrame
    /\ closure' = [closure EXCEPT !.calls = @ + 1]

\* setState(newState) through the callback of the last render; nextState is
\* what the updater makes of the currentState of that render
setState(nextState) ==
    /\ closure.calls < MaxCalls
    /\ closure.currentIndex + 2 <= MaxHistory
    /\ LET newHistory == NewHistory(closure.history, closure.currentIndex, nextState)
           effective == JSONstringify(nextState) # JSONstringify(RenderedState)
       IN /\ IF effective
             THEN /\ history' = newHistory
                  /\ currentIndex' = Len(newHistory) - 1
             ELSE UNCHANGED <<history, currentIndex>>
          /\ last' = [op |-> "setState", effective |-> effective,
                      nextState |-> nextState,
                      discarded |-> Len(history) - (currentIndex + 1)]
    /\ CallFrame

\* undo() through the callback of the last render: the guard reads the
\* currentIndex of that render, the update is applied to the pending one
undo ==
    /\ closure.calls < MaxCalls
    /\ currentIndex' = IF closure.currentIndex > 0 THEN currentIndex - 1
                       ELSE currentIndex
    /\ last' = [op |-> "undo", moved |-> closure.currentIndex > 0,
                fresh |-> closure.calls = 0,
                history |-> history, currentIndex |-> currentIndex]
    /\ UNCHANGED history
    /\ CallFrame

\* redo() through the callback of the last render
redo ==
    /\ closure.calls < MaxCalls
    /\ currentIndex' = IF closure.currentIndex < Len(closure.history) - 1
                       THEN currentIndex + 1 ELSE currentIndex
    /\ last' = [op |-> "redo",
                moved |-> closure.currentIndex < Len(closure.history) - 1]
    /\ UNCHANGED history
    /\ CallFrame

\* the render after the calls: the App takes items, stock and categoryColors
\* from history[currentIndex], which throws when there is no such snapshot,
\* and the callbacks are created again
render ==
    /\ closure.calls > 0
    /\ currentIndex \in 0..(Len(history) - 1)
    /\ closure' = [history |-> history, currentIndex |-> currentIndex, calls |-> 0]
    /\ items' = history[currentIndex + 1].items
    /\ stock' = history[currentIndex + 1].stock
    /\ categoryColors' = history[currentIndex + 1].categoryColors
    /\ view' = Derive(items', stock', searchQuery, filterCategory, filterLocation)
    /\ UNCHANGED <<history, currentIndex, last, selectedItemIds, searchQuery,
                   filterCategory, filterLocation, nOps, dbStock, moves,
                   dbItems, deletion>>
    /\ TableFrame

NextHistory ==
    \/ \E i \in 1..Len(items) : setState(DeleteUpdater(RenderedState, items[i].id))
    \/ \E i \in 1..Len(items) : \E d \in EditDescriptions(items[i]) :
           setState(EditUpdater(RenderedState, [items[i] EXCEPT !.description = d]))
    \/ undo
    \/ redo
    \/ render

SpecHistory == InitHistory /\ [][NextHistory]_vars

(* Properties of the undo history *)

\* C27: a setState made from a fresh render with a next state structurally
\* equal to the current state leaves history, currentIndex, canUndo and canRedo
\* as they were; with a structurally different next state the history is the
\* one up to the current snapshot with exactly that one state appended, and the
\* appended snapshot is the current state
C27_SetStatePushesEffectiveChanges ==
    [][(last'.op = "setState" /\ closure.calls = 0 /\ closure'.calls = 1) =>
          IF last'.nextState = history[currentIndex + 1]
          THEN /\ history' = history
               /\ currentIndex' = currentIndex
               /\ canUndo' = canUndo
               /\ canRedo' = canRedo
          ELSE /\ Len(history') = currentIndex + 2
               /\ SubSeq(history', 1, currentIndex + 1)
                      = SubSeq(history, 1, currentIndex + 1)
               /\ currentIndex' = currentIndex + 1
               /\ history'[currentIndex' + 1] = last'.nextState]_vars

\* a setState that changed nothing was made from a fresh render after the
\* history had grown
C27_Witness ==
    /\ last.op = "setState"
    /\ ~last.effective
    /\ closure.calls = 1
    /\ closure.currentIndex = currentIndex
    /\ Len(history) >= 2
    /\ currentIndex = Len(history) - 1

\* C28: after any sequence of setState, undo and redo calls, several calls
\* from one render included, 0 <= currentIndex <= history.length - 1
C28_IndexInRange ==
    /\ 0 <= currentIndex
    /\ currentIndex <= Len(history) - 1

\* C29: an effective setState made from a fresh render discards every
\* snapshot after the current index, the new state is the last entry of the
\* history, canRedo is false and canUndo is true afterwards; a redo that
\* follows an undo, each made from a fresh render, returns to the history and
\* the index, hence the state, the undo was made from
C29_SetStateDiscardsRedoTail ==
    /\ [][(last'.op = "setState" /\ last'.effective
             /\ closure.calls = 0 /\ closure'.calls = 1) =>
            (/\ history' = Append(SubSeq(history, 1, currentIndex + 1),
                                  last'.nextState)
             /\ history'[Len(history')] = last'.nextState
             /\ currentIndex' = Len(history') - 1
             /\ ~canRedo'
             /\ canUndo')]_vars
    /\ [][(last.op = "undo" /\ last.moved /\ last.fresh /\ last'.op = "redo"
             /\ closure.calls = 0 /\ closure'.calls = 1) =>
            (/\ last'.moved
             /\ history' = last.history
             /\ currentIndex' = last.currentIndex
             /\ history'[currentIndex' + 1]
                    = last.history[last.currentIndex + 1])]_vars

\* an effective setState was made from a fresh render after an undo and
\* discarded a snapshot
C29_Witness ==
    /\ last.op = "setState"
    /\ last.effective
    /\ last.discarded > 0
    /\ closure.calls = 1
    /\ closure.currentIndex < Len(closure.history) - 1
    /\ ~canRedo
    /\ canUndo

-----------------------------------------------------------------------------
(* Properties of the item collection under the mutation handlers *)

\* C21: after any sequence of add, duplicate, edit, bulk edit, import and
\* delete, no two items have the same id; no handler changes the id of an
\* existing item (every handler but a confirmed delete keeps each item at its
\* place with its id, a confirmed delete removes the item of the given id and
\* keeps the others in order); an add whose id already exists is rejected
\* and leaves items and stock as they were
C21_UniqueIds ==
    /\ [](\A i, j \in 1..Len(items) : items[i].id = items[j].id => i = j)
    /\ [][/\ ((last'.op = "delete" /\ last'.ok) =>
                (Ids(items') =
                    Ids(SelectSeq(items, LAMBDA item : item.id # last'.itemId))))
           /\ (~(last'.op = "delete" /\ last'.ok) =>
                (/\ Len(items') >= Len(items)
                 /\ \A i \in 1..Len(items) : items'[i].id = items[i].id))
           /\ ((last'.op = "add" /\ last'.itemId \in ItemIds(items)) =>
                (~last'.ok /\ items' = items /\ stock' = stock))]_vars

\* an item N exists beside the initial items and an add form with the id N
\* has just been rejected
C21_Witness ==
    /\ last.op = "add" /\ ~last.ok
    /\ last.itemId = NewId
    /\ NewId \in ItemIds(items)
    /\ Len(items) = Len(initialItems) + 1

-----------------------------------------------------------------------------
(* Properties of the stock collection under the mutation handlers *)

\* the positions in stk of the rows of an item at a location
RowsAt(stk, itemId, locationId) ==
    {k \in 1..Len(stk) : stk[k].itemId = itemId /\ stk[k].locationId = locationId}

\* the quantity an item has at a location: the sum over its rows there
QuantityAt(stk, itemId, locationId) ==
    SumOver(RowsAt(stk, itemId, locationId), [k \in 1..Len(stk) |-> stk[k].quantity])

\* the quantity an item has over all its rows
QuantityOf(stk, itemId) ==
    SumOver({k \in 1..Len(stk) : stk[k].itemId = itemId},
            [k \in 1..Len(stk) |-> stk[k].quantity])

\* the rows of every other item, in order
RowsOfOthers(stk, itemId) == SelectSeq(stk, LAMBDA s : s.itemId # itemId)

\* C4: a move that passed the form's validation debits the source location
\* by q, credits the destination location by q, keeps the item's total over
\* all its rows, and changes no stock row of any other item
C4_MoveIsOneUpdate ==
    [][(last'.op = "move" /\ last'.ok) =>
          LET id == last'.itemId
              from == last'.fromLocationId
              to == last'.toLocationId
              q == last'.quantity
          IN /\ QuantityAt(stock', id, from) = QuantityAt(stock, id, from) - q
             /\ QuantityAt(stock', id, to) = QuantityAt(stock, id, to) + q
             /\ QuantityOf(stock', id) = QuantityOf(stock, id)
             /\ RowsOfOthers(stock', id) = RowsOfOthers(stock, id)]_vars

\* C6: every stock row handed to the view engine has quantity > 0
C6_PositiveQuantities ==
    \A k \in 1..Len(stock) : stock[k].quantity > 0

\* C7: the stock collection holds at most one row for each pair of an item
\* and a location
C7_OneRowPerPair ==
    \A j, k \in 1..Len(stock) :
        (stock[j].itemId = stock[k].itemId /\ stock[j].locationId = stock[k].locationId)
            => j = k

\* a move request that fails validation as the claim lists it: source or
\* destination missing, source equal to destination, quantity <= 0, no row of
\* the item at the source, or a quantity above that of the source row (the
\* first row of the item at the source)
MoveInvalid(stk, itemId, from, to, q) ==
    \/ from = <<>> \/ to = <<>>
    \/ from = to
    \/ q <= 0
    \/ RowsAt(stk, itemId, from) = {}
    \/ LET source == CHOOSE k \in RowsAt(stk, itemId, from) :
                         \A j \in RowsAt(stk, itemId, from) : k <= j
       IN q > stk[source].quantity

\* C22: a move request that fails validation is rejected with an error
\* outcome and leaves the item and stock collections exactly as they were
C22_InvalidMoveRejected ==
    [][(/\ last'.op = "move"
        /\ MoveInvalid(stock, last'.itemId, last'.fromLocationId,
                       last'.toLocationId, last'.quantity))
          => (~last'.ok /\ items' = items /\ stock' = stock)]_vars

\* a move of more than the source row holds, between two different chosen
\* locations, has just been rejected
C22_Witness ==
    /\ last.op = "move" /\ ~last.ok
    /\ last.fromLocationId # <<>> /\ last.toLocationId # <<>>
    /\ last.fromLocationId # last.toLocationId
    /\ last.quantity > 0
    /\ RowsAt(stock, last.itemId, last.fromLocationId) # {}
    /\ \A k \in RowsAt(stock, last.itemId, last.fromLocationId) :
           stock[k].quantity < last.quantity

-----------------------------------------------------------------------------
(* Properties of the import *)

\* the configured locations whose name is the given text, letter case ignored
MatchingLocations(name) ==
    {i \in 1..Len(locations) :
        /\ Len(locations[i].name) = Len(name)
        /\ \A j \in 1..Len(name) : SameLetter(locations[i].name[j], name[j])}

\* C23: when an import contains stock rows whose location name matches no
\* configured location (letter case ignored), exactly those rows are dropped
\* and reported as skipped; the import still completes: every imported item
\* is in the item collection with its imported description, category and
\* threshold, and the stock rows of the imported items are the rows with a
\* recognized location, in order, each at the id of the location it names
C23_ImportSkipsUnrecognized ==
    [][last'.op = "import" =>
          LET imported == last'.importedItems
              rows == last'.importedStock
              recognized == SelectSeq(rows, LAMBDA s : MatchingLocations(s.locationId) # {})
              applied == SelectSeq(stock', LAMBDA s : s.itemId \in ItemIds(imported))
          IN /\ last'.ok
             /\ last'.skipped = SelectSeq(rows, LAMBDA s : MatchingLocations(s.locationId) = {})
             /\ \A k \in 1..Len(imported) :
                    \E i \in 1..Len(items') :
                        /\ items'[i].id = imported[k].id
                        /\ items'[i].description = imported[k].description
                        /\ items'[i].category = imported[k].category
                        /\ items'[i].lowAlertQuantity = imported[k].lowAlertQuantity
             /\ Len(applied) = Len(recognized)
             /\ \A k \in 1..Len(recognized) :
                    /\ applied[k].itemId = recognized[k].itemId
                    /\ applied[k].quantity = recognized[k].quantity
                    /\ \E i \in MatchingLocations(recognized[k].locationId) :
                           applied[k].locationId = locations[i].id]_vars

\* an import of two rows of one item has just run: the row at a location
\* that is not configured was skipped, the other row is in the stock
C23_Witness ==
    /\ last.op = "import"
    /\ Len(last.importedStock) = 2
    /\ Len(last.skipped) = 1
    /\ MatchingLocations(last.skipped[1].locationId) = {}
    /\ \E k \in 1..Len(stock) :
           /\ stock[k].itemId = last.skipped[1].itemId
           /\ stock[k].locationId = PROD

\* C30: an import replaces the stock rows of exactly the imported items with
\* the imported rows that name a configured location, keeps every stock row
\* of the other items, every other item and the category colors as they were;
\* an imported item that exists keeps its id and its place and takes the
\* imported fields (its usage history is kept when the file has none), so the
\* collection grows only by the ids that are new
C30_ImportReplacesStockOfImportedItems ==
    [][last'.op = "import" =>
          LET ids == ItemIds(last'.importedItems)
              recognized == SelectSeq(last'.importedStock,
                                      LAMBDA s : MatchingLocations(s.locationId) # {})
              replaced == SelectSeq(stock', LAMBDA s : s.itemId \in ids)
          IN /\ Len(replaced) = Len(recognized)
             /\ \A k \in 1..Len(recognized) :
                    \E i \in MatchingLocations(recognized[k].locationId) :
                        replaced[k] = [recognized[k] EXCEPT !.locationId = locations[i].id]
             /\ SelectSeq(stock', LAMBDA s : s.itemId \notin ids)
                    = SelectSeq(stock, LAMBDA s : s.itemId \notin ids)
             /\ \A i \in 1..Len(items) :
                    /\ items'[i].id = items[i].id
                    /\ (items[i].id \notin ids) => (items'[i] = items[i])
                    /\ (items[i].id \in ids) =>
                           \E k \in 1..Len(last'.importedItems) :
                               /\ last'.importedItems[k].id = items[i].id
                               /\ items'[i] = [last'.importedItems[k] EXCEPT
                                                  !.priorUsage = items[i].priorUsage]
             /\ ItemIds(items') = ItemIds(items) \cup ids
             /\ Len(items') = Len(items) + Cardinality(ids \ ItemIds(items))
             /\ categoryColors' = categoryColors]_vars

\* an import of one of the initial items has just run: its two stock rows
\* gave way to one imported row, the rows of the other item are in the stock,
\* and there are two items as before
C30_Witness ==
    /\ last.op = "import"
    /\ ItemIds(last.importedItems) = {SAMP11}
    /\ Len(SelectSeq(stock, LAMBDA s : s.itemId = SAMP11)) = 1
    /\ SelectSeq(stock, LAMBDA s : s.itemId = SAMP15)
           = SelectSeq(initialStock, LAMBDA s : s.itemId = SAMP15)
    /\ ItemIds(items) = {SAMP11, SAMP15}
    /\ Len(items) = 2

-----------------------------------------------------------------------------
(* The document-store App: handleMoveStock as a transaction against the    *)
(* 'stock' collection, and the listener that copies the collection into    *)
(* appState.stock.  dbStock maps a document id to the document's data.     *)
(* Reads made with getDocs see the committed collection at the moment of   *)
(* the read and are not tracked by the transaction; the writes buffered    *)
(* with transaction.update and transaction.set are applied together at     *)
(* commit, an update requiring only that its document exists.              *)

\* number of handleMoveStock calls
MaxMoves == 2

\* largest document id; ids stand for the store's random auto-ids
MaxDocId == 6

DocIds == 1..MaxDocId

\* the ids seedData's batch gave to the documents of initialStock
SeedIds == {<<2, 4, 5, 6>>, <<5, 2, 6, 4>>}

\* the seeded 'stock' collection
SeededStock(ids) ==
    [d \in {ids[k] : k \in 1..Len(ids)} |->
        initialStock[CHOOSE k \in 1..Len(ids) : ids[k] = d]]

\* snapshot.docs of the whole collection: the documents in id order
RECURSIVE DocsOf(_, _)
DocsOf(db, ids) ==
    IF ids = {} THEN <<>>
    ELSE LET d == CHOOSE d \in ids : \A e \in ids : d <= e
         IN <<db[d]>> \o DocsOf(db, ids \ {d})

\* the ids of the documents a query on itemId and locationId returns
QueryStock(db, itemId, locationId) ==
    {d \in DOMAIN db : db[d].itemId = itemId /\ db[d].locationId = locationId}

\* snapshot.docs[0] of a non-empty query result
FirstDoc(ids) == CHOOSE d \in ids : \A e \in ids : d <= e

Idle == [pc |-> "idle"]

\* the ids no document has or had and no transaction in flight has taken
FreeDocIds ==
    {d \in DocIds :
        /\ d \notin DOMAIN dbStock
        /\ d \notin deletion.docs
        /\ \A p \in DOMAIN moves :
               moves[p].pc = "commit" =>
                   \A w \in 1..Len(moves[p].writes) : moves[p].writes[w].docId # d}

\* the collection after the buffered writes of a transaction
RECURSIVE ApplyWrites(_, _)
ApplyWrites(db, writes) ==
    IF writes = <<>> THEN db
    ELSE LET w == Head(writes)
             next ==
                 IF w.kind = "set" THEN (w.docId :> w.data) @@ db
                 ELSE [db EXCEPT
                         ![w.docId].quantity = w.quantity,
                         ![w.docId].subLocationDetail =
                             IF w.subLocationDetail # Undefined
                             THEN w.subLocationDetail ELSE @]
         IN ApplyWrites(next, Tail(writes))

RemoteTargets == {WHC, PROD, WHK}

RemoteQuantities == {25, 75}

InitRemote ==
    /\ items = initialItems
    /\ \E ids \in SeedIds : dbStock = SeededStock(ids)
    /\ stock = DocsOf(dbStock, DOMAIN dbStock)
    /\ categoryColors = initialColors
    /\ selectedItemIds = {}
    /\ searchQuery = <<>>
    /\ filterCategory = <<>>
    /\ filterLocation = <<>>
    /\ view = Derive(items, stock, <<>>, <<>>, <<>>)
    /\ last = [op |-> "init"]
    /\ nOps = 0
    /\ moves = [p \in 1..MaxMoves |-> Idle]
    /\ TableInit
    /\ dbItems = ItemIds(initialItems)
    /\ deletion = NoDeletion
    /\ NoHistory

RemoteFrame ==
    /\ UNCHANGED <<items, categoryColors, selectedItemIds, searchQuery,
                   filterCategory, filterLocation, last, nOps>>
    /\ TableFrame
    /\ StoreFrame

\* MoveStockModal.handleSubmit on items[i] passes its validation against the
\* listener's copy of the stock and calls handleMoveStock: the transaction
\* function starts
StartMove(p, i, fromLocationId, toLocationId, quantity) ==
    /\ moves[p].pc = "idle"
    /\ ~MoveRejected(items[i].id, fromLocationId, toLocationId, quantity)
    /\ moves' = [moves EXCEPT ![p] =
                    [pc |-> "readFrom", itemId |-> items[i].id,
                     fromLocationId |-> fromLocationId,
                     toLocationId |-> toLocationId, quantity |-> quantity,
                     toSubLocationDetail |-> <<>>, writes |-> <<>>]]
    /\ UNCHANGED <<stock, view, dbStock>>
    /\ RemoteFrame

\* the getDocs of the source query, the two throws, and the buffered update
\* of the source document
ReadFrom(p) ==
    /\ moves[p].pc = "readFrom"
    /\ LET m == moves[p]
           fromSnapshot == QueryStock(dbStock, m.itemId, m.fromLocationId)
       IN IF fromSnapshot = {} THEN moves' = [moves EXCEPT ![p].pc = "failed"]
          ELSE LET fromDoc == FirstDoc(fromSnapshot)
                   fromData == dbStock[fromDoc]
               IN IF fromData.quantity < m.quantity
                  THEN moves' = [moves EXCEPT ![p].pc = "failed"]
                  ELSE moves' = [moves EXCEPT ![p] =
                           [pc |-> "readTo", itemId |-> m.itemId,
                            fromLocationId |-> m.fromLocationId,
                            toLocationId |-> m.toLocationId,
                            quantity |-> m.quantity,
                            toSubLocationDetail |-> m.toSubLocationDetail,
                            fromData |-> fromData,
                            writes |-> <<[kind |-> "update", docId |-> fromDoc,
                                          quantity |-> fromData.quantity - m.quantity,
                                          subLocationDetail |-> Undefined]>>]]
    /\ UNCHANGED <<stock, view, dbStock>>
    /\ RemoteFrame

\* the getDocs of the destination query and the buffered update or set of
\* the destination document; newToRef is the id of a document made here
ReadTo(p, newToRef) ==
    /\ moves[p].pc = "readTo"
    /\ LET m == moves[p]
           toSnapshot == QueryStock(dbStock, m.itemId, m.toLocationId)
           write ==
               IF toSnapshot # {}
               THEN LET toDoc == FirstDoc(toSnapshot)
                    IN [kind |-> "update", docId |-> toDoc,
                        quantity |-> dbStock[toDoc].quantity + m.quantity,
                        subLocationDetail |-> Some(m.toSubLocationDetail)]
               ELSE [kind |-> "set", docId |-> newToRef,
                     data |-> [itemId |-> m.itemId, locationId |-> m.toLocationId,
                               quantity |-> m.quantity,
                               subLocationDetail |-> Some(m.toSubLocationDetail),
                               source |-> m.fromData.source,
                               poNumber |-> m.fromData.poNumber,
                               dateReceived |-> m.fromData.dateReceived]]
       IN moves' = [moves EXCEPT ![p].pc = "commit",
                                 ![p].writes = Append(@, write)]
    /\ UNCHANGED <<stock, view, dbStock>>
    /\ RemoteFrame

\* the commit of the transaction: the buffered writes are applied together
Commit(p) ==
    /\ moves[p].pc = "commit"
    /\ LET writes == moves[p].writes
       IN IF \A w \in 1..Len(writes) :
                 writes[w].kind = "update" => writes[w].docId \in DOMAIN dbStock
          THEN /\ dbStock' = ApplyWrites(dbStock, writes)
               /\ moves' = [moves EXCEPT ![p].pc = "done"]
          ELSE /\ dbStock' = dbStock
               /\ moves' = [moves EXCEPT ![p].pc = "failed"]
    /\ UNCHANGED <<stock, view>>
    /\ RemoteFrame

\* the onSnapshot listener of the 'stock' collection, and the render that
\* follows
StockSnapshot ==
    /\ stock # DocsOf(dbStock, DOMAIN dbStock)
    /\ stock' = DocsOf(dbStock, DOMAIN dbStock)
    /\ view' = Derive(items, stock', searchQuery, filterCategory, filterLocation)
    /\ UNCHANGED <<dbStock, moves>>
    /\ RemoteFrame

NextRemote ==
    \/ \E p \in 1..MaxMoves, i \in 1..Len(items) :
           \E f \in availableFromLocations(items[i].id), t \in RemoteTargets,
              q \in RemoteQuantities :
               StartMove(p, i, f, t, q)
    \/ \E p \in 1..MaxMoves : ReadFrom(p)
    \/ \E p \in 1..MaxMoves, newToRef \in FreeDocIds : ReadTo(p, newToRef)
    \/ \E p \in 1..MaxMoves : Commit(p)
    \/ StockSnapshot

SpecRemote == InitRemote /\ [][NextRemote]_vars

\* the quantity an item has over all the documents of the collection
QuantityInStore(itemId) ==
    SumOver({d \in DOMAIN dbStock : dbStock[d].itemId = itemId},
            [d \in DOMAIN dbStock |-> dbStock[d].quantity])

\* two moves on rows of one item were started and both have ended
TwoMovesEnded(itemId) ==
    /\ \A p \in 1..MaxMoves : moves[p].pc \in {"done", "failed"}
    /\ \A p \in 1..MaxMoves : moves[p].itemId = itemId

\* C5: when two concurrent moves on rows of one item have ended, the item's
\* total over all its documents is its total before the moves and no
\* document has a negative quantity
C5_RemoteMovesAtomic ==
    \A i \in 1..Len(initialItems) :
        TwoMovesEnded(initialItems[i].id) =>
            /\ QuantityInStore(initialItems[i].id)
                   = QuantityOf(initialStock, initialItems[i].id)
            /\ \A d \in DOMAIN dbStock : dbStock[d].quantity >= 0

-----------------------------------------------------------------------------
(* handleDeleteItem against the document store, next to the moves          *)

\* what the delete and the 'inventory' listener leave alone
DeleteFrame ==
    /\ UNCHANGED <<categoryColors, searchQuery, filterCategory, filterLocation,
                   last, nOps, moves>>
    /\ TableFrame
    /\ HistoryFrame

\* handleDeleteItem on items[i], confirmed: batch.delete(itemRef), then the
\* getDocs of the stock query, whose documents are added to the batch
StartDelete(i) ==
    /\ deletion.pc = "idle"
    /\ deletion' = [pc |-> "commit", itemId |-> items[i].id,
                    docs |-> {d \in DOMAIN dbStock : dbStock[d].itemId = items[i].id}]
    /\ UNCHANGED <<items, stock, view, selectedItemIds, dbStock, dbItems>>
    /\ DeleteFrame

\* batch.commit(): the item document and the stock documents that were read
\* are deleted together; then the id leaves the selection
CommitDelete ==
    /\ deletion.pc = "commit"
    /\ dbItems' = dbItems \ {deletion.itemId}
    /\ dbStock' = [d \in DOMAIN dbStock \ deletion.docs |-> dbStock[d]]
    /\ selectedItemIds' = selectedItemIds \ {deletion.itemId}
    /\ deletion' = [deletion EXCEPT !.pc = "done"]
    /\ UNCHANGED <<items, stock, view>>
    /\ DeleteFrame

\* the onSnapshot listener of the 'inventory' collection, and the render
\* that follows
ItemsSnapshot ==
    /\ ItemIds(items) # dbItems
    /\ items' = SelectSeq(initialItems, LAMBDA item : item.id \in dbItems)
    /\ view' = Derive(items', stock, searchQuery, filterCategory, filterLocation)
    /\ UNCHANGED <<stock, selectedItemIds, dbStock, dbItems, deletion>>
    /\ DeleteFrame

\* one move and one delete against the store, and the listeners
NextRemoteDelete ==
    \/ \E i \in 1..Len(items) :
           \E f \in availableFromLocations(items[i].id), t \in RemoteTargets,
              q \in RemoteQuantities :
               StartMove(1, i, f, t, q)
    \/ ReadFrom(1)
    \/ \E newToRef \in FreeDocIds : ReadTo(1, newToRef)
    \/ Commit(1)
    \/ StockSnapshot
    \/ \E i \in 1..Len(items) : StartDelete(i)
    \/ CommitDelete
    \/ ItemsSnapshot

SpecRemoteDelete == InitRemote /\ [][NextRemoteDelete]_vars

\* C20: after a confirmed delete of item X, X is absent from the item
\* collection, no stock row with itemId = X remains and X is not in the
\* selection; the delete leaves every other item and every stock row of
\* other items unchanged; and every stock row's itemId is the id of an
\* existing item.
C20_DeleteCascades ==
    /\ [](deletion.pc = "done" =>
             /\ deletion.itemId \notin dbItems
             /\ \A d \in DOMAIN dbStock : dbStock[d].itemId # deletion.itemId
             /\ deletion.itemId \notin selectedItemIds)
    /\ [](\A d \in DOMAIN dbStock : dbStock[d].itemId \in dbItems)
    /\ [][(deletion.pc = "commit" /\ deletion'.pc = "done") =>
             /\ dbItems' \cup {deletion.itemId} = dbItems \cup {deletion.itemId}
             /\ \A d \in DOMAIN dbStock :
                    dbStock[d].itemId # deletion.itemId
                        => (d \in DOMAIN dbStock' /\ dbStock'[d] = dbStock[d])
             /\ DOMAIN dbStock' \subseteq DOMAIN dbStock]_vars

\* the delete of the App that keeps its state in memory: a confirmed delete
\* removes the item, its stock rows and its id from the selection and
\* nothing else, and every stock row belongs to an existing item
InMemoryDeleteCascades ==
    /\ [](\A k \in 1..Len(stock) : stock[k].itemId \in ItemIds(items))
    /\ [][(last'.op = "delete" /\ last'.ok /\ nOps' = nOps + 1) =>
             /\ items' = SelectSeq(items, LAMBDA item : item.id # last'.itemId)
             /\ stock' = SelectSeq(stock, LAMBDA s : s.itemId # last'.itemId)
             /\ selectedItemIds' = selectedItemIds \ {last'.itemId}]_vars

\* C24: a mutation against the document store reaches the view engine
\* all-or-nothing. For the delete of item X with no move started: once the
\* batch is committed, every pair (items, stock) the table is derived from
\* shows X with its stock rows or neither X nor any of its rows, whatever
\* the order of the 'inventory' and 'stock' notifications
C24_MutationsAllOrNothing ==
    (deletion.pc = "done" /\ \A p \in DOMAIN moves : moves[p].pc = "idle") =>
        /\ view = Derive(items, stock, searchQuery, filterCategory, filterLocation)
        /\ (deletion.itemId \in ItemIds(items))
               <=> (\E k \in 1..Len(stock) : stock[k].itemId = deletion.itemId)

====
